---- MODULE Spec2Model ----
(***************************************************************************)
(* PerfectAlign: the manipulation and evaluation core.                     *)
(*                                                                         *)
(* Numbers are exact fixed-point values:                                   *)
(*   positions   in 1/100 px      (5 px   = 500)                           *)
(*   rotations   in 1/100 degree  (5 deg  = 500); a sprite's rotation in   *)
(*               radians is kept as the same multiple of pi/18000          *)
(*   scales      in 1/100         (1.0    = 100)                           *)
(*   totalError  in 1/200         (0.01   = 2, 0.1 = 20)                   *)
(*   time        in ms                                                     *)
(* A Partial<Transform> is a function whose DOMAIN is the set of supplied  *)
(* fields.  null is the string "null" (a level: index 0); a nullable       *)
(* object is None or Some(v).                                              *)
(***************************************************************************)
EXTENDS Integers, Sequences, FiniteSets, TLC

null == "null"
None == <<>>
Some(v) == <<v>>

Abs(v) == IF v < 0 THEN -v ELSE v
Max(a, b) == IF a > b THEN a ELSE b
Range(seq) == {seq[i] : i \in 1..Len(seq)}
Min(a, b) == IF a < b THEN a ELSE b

(* Math.round: the nearest integer, a tie going up. round(v/size)*size. *)
RoundToGrid(v, size) == ((2 * v + size) \div (2 * size)) * size

(***************************************************************************)
(* Bounds of the model.                                                    *)
(***************************************************************************)
\* handlers run in one session
MaxEvents == 10
\* entries the action log may hold
MaxLog == 2
\* pending feedback auto-clear timeouts
MaxTimers == 2
\* running long-press intervals
MaxIntervals == 1
\* touch identifiers
MaxTouches == 2
\* clock advances (of TapWindow ms each) in a run
MaxNow == 1
\* pointer-moves recorded in one drag (SnapSpec)
MaxMoves == 5
\* largest viewport translation, in 1/100 px
MaxPan == 20000
\* rotate steps in one run (RotateSpec)
MaxSteps == 38
\* quarter turns either way of the angles handed to the utils (UtilSpec)
MaxQuarters == 8
\* largest of the small numbers handed to the utils (UtilSpec)
MaxSmall == 210
\* the most nudges made in one scenario of fine moves
MaxNudges == 2
\* the most button events (presses, repeats, releases) in one scenario of
\* held buttons
MaxHolds == 5
\* the most repeat intervals running at once in that scenario
MaxHeld == 2

(***************************************************************************)
(* utils                                                                   *)
(***************************************************************************)
(* normalizeAngle with each while loop run at most once *)
normalizeAngleOnce(angle) ==
  IF angle > 18000 THEN angle - 36000
  ELSE IF angle < -18000 THEN angle + 36000
  ELSE angle

RECURSIVE normalizeAngle(_)
normalizeAngle(angle) ==
  IF angle > 18000 THEN normalizeAngle(angle - 36000)
  ELSE IF angle < -18000 THEN normalizeAngle(angle + 36000)
  ELSE angle

(* clampScale without the lower limit *)
clampScaleUpperOnly(scale) == Min(200, scale)

clampScale(scale) == Max(50, Min(200, scale))

degToRad(degrees) == degrees
radToDeg(radians) == radians

W_POSITION == 2
W_ROTATION == 1
W_SCALE == 100

PieceError(piece) ==
  LET dx == Abs(piece.current.x - piece.target.x)
      dy == Abs(piece.current.y - piece.target.y)
      dr == Abs(normalizeAngle(piece.current.rotation - piece.target.rotation))
      dsx == Abs(piece.current.scaleX - piece.target.scaleX)
      dsy == Abs(piece.current.scaleY - piece.target.scaleY)
  IN (dx + dy) * W_POSITION + dr * W_ROTATION + (dsx + dsy) * W_SCALE

RECURSIVE calculateError(_)
calculateError(pieces) ==
  IF pieces = <<>> THEN 0
  ELSE calculateError(SubSeq(pieces, 1, Len(pieces) - 1)) + PieceError(pieces[Len(pieces)])

(* the tiers of an earlier getWinRating: below 0.5, below 2, below 5 *)
getWinRatingLenient(totalError) ==
  IF totalError < 100 THEN "Perfect"
  ELSE IF totalError < 400 THEN "Great"
  ELSE IF totalError < 1000 THEN "Good"
  ELSE null

getWinRating(totalError) ==
  IF totalError = 0 THEN "Perfect"
  ELSE IF totalError < 2 THEN "Great"
  ELSE IF totalError < 20 THEN "Good"
  ELSE null

(***************************************************************************)
(* Level definitions supplied by the caller.                               *)
(***************************************************************************)
T(x, y, r, sx, sy) == [x |-> x, y |-> y, rotation |-> r, scaleX |-> sx, scaleY |-> sy]

PieceCfg(id, start, target) ==
  [id |-> id, start_transform |-> start, target_transform |-> target]

(* Level 1: piece A is on its target but for a start rotation of 365        *)
(* degrees; its x lies off the grid (120.05 px).  Piece B is on its target. *)
(* Level 2: one piece 5 px left of its target.                              *)
(* Level 3: one piece placed on its target and turned by 180 degrees, where *)
(* the target is turned by -180 degrees.                                    *)
levels ==
  << [level_id |-> 1,
      pieces |-> << PieceCfg("A", T(12005, 0, 36500, 100, 100), T(12005, 0, 0, 100, 100)),
                    PieceCfg("B", T(1000, 0, 0, 100, 100), T(1000, 0, 0, 100, 100)) >>],
     [level_id |-> 2,
      pieces |-> << PieceCfg("C", T(0, 0, 0, 100, 100), T(500, 0, 0, 100, 100)) >>],
     [level_id |-> 3,
      pieces |-> << PieceCfg("D", T(0, 0, 18000, 100, 100), T(0, 0, -18000, 100, 100)) >>] >>
PieceIds == {"A", "B", "C", "D"}

(* What a caller may hand to loadLevel: the game's levels, and a config     *)
(* whose pieces array is empty.                                             *)
configs == levels \o << [level_id |-> 4, pieces |-> << >>] >>

(***************************************************************************)
(* gameStore                                                               *)
(* Beside the store's fields the record counts the timeouts that           *)
(* updatePieceTransform has set and that have not fired yet                *)
(* (feedbackTimers), and how many of those were set before the latest      *)
(* loadLevel (staleTimers).  No store function cancels a timeout.  The     *)
(* timeouts all have the same delay, so they fire in the order they were   *)
(* set.                                                                    *)
(***************************************************************************)
HasPiece(pieces, id) == \E i \in 1..Len(pieces) : pieces[i].id = id

Find(pieces, id) ==
  LET hits == {i \in 1..Len(pieces) : pieces[i].id = id}
  IN pieces[CHOOSE i \in hits : \A j \in hits : i <= j]

StoreInit ==
  [gameState |-> "IDLE", levelConfig |-> 0, pieces |-> <<>>,
   selectedPieceId |-> null, actionLogs |-> <<>>, gameStartTime |-> 0,
   isPreviewActive |-> FALSE, winRating |-> null, totalError |-> 0,
   snapSize |-> 1, activeFeedback |-> null, feedbackPieceId |-> null,
   feedbackTargetPos |-> None, feedbackTimers |-> 0, staleTimers |-> 0]

(* loadLevel that keeps the selection *)
loadLevelKeepsSelection(st, config, t) ==
  [st EXCEPT
     !.levelConfig = config,
     !.pieces = [i \in 1..Len(configs[config].pieces) |->
                   [id |-> configs[config].pieces[i].id,
                    current |-> configs[config].pieces[i].start_transform,
                    target |-> configs[config].pieces[i].target_transform]],
     !.gameState = "PLAYING",
     !.actionLogs = <<>>,
     !.gameStartTime = t,
     !.isPreviewActive = FALSE,
     !.winRating = null,
     !.totalError = 0,
     !.activeFeedback = null,
     !.feedbackPieceId = null,
     !.feedbackTargetPos = None,
     !.staleTimers = st.feedbackTimers]

loadLevel(st, config, t) ==
  [st EXCEPT
     !.levelConfig = config,
     !.pieces = [i \in 1..Len(configs[config].pieces) |->
                   [id |-> configs[config].pieces[i].id,
                    current |-> configs[config].pieces[i].start_transform,
                    target |-> configs[config].pieces[i].target_transform]],
     !.gameState = "PLAYING",
     !.selectedPieceId = null,
     !.actionLogs = <<>>,
     !.gameStartTime = t,
     !.isPreviewActive = FALSE,
     !.winRating = null,
     !.totalError = 0,
     !.activeFeedback = null,
     !.feedbackPieceId = null,
     !.feedbackTargetPos = None,
     !.staleTimers = st.feedbackTimers]

selectPiece(st, id) == [st EXCEPT !.selectedPieceId = id]

ROTATION_THRESHOLD == 50
SCALE_THRESHOLD == 2
POSITION_THRESHOLD == 200

Has(transform, f) == f \in DOMAIN transform

Merge(current, transform) ==
  [x |-> IF Has(transform, "x") THEN transform.x ELSE current.x,
   y |-> IF Has(transform, "y") THEN transform.y ELSE current.y,
   rotation |-> IF Has(transform, "rotation")
                THEN normalizeAngle(transform.rotation) ELSE current.rotation,
   scaleX |-> IF Has(transform, "scaleX")
              THEN clampScale(transform.scaleX) ELSE current.scaleX,
   scaleY |-> IF Has(transform, "scaleY")
              THEN clampScale(transform.scaleY) ELSE current.scaleY]

RotationCorrect(cur, target) == Abs(cur.rotation - target.rotation) < ROTATION_THRESHOLD
ScaleCorrect(cur, target) ==
  /\ Abs(cur.scaleX - target.scaleX) < SCALE_THRESHOLD
  /\ Abs(cur.scaleY - target.scaleY) < SCALE_THRESHOLD
XCorrect(cur, target) == Abs(cur.x - target.x) < POSITION_THRESHOLD
YCorrect(cur, target) == Abs(cur.y - target.y) < POSITION_THRESHOLD

FeedbackFor(st, piece, newCurrent) ==
  IF st.activeFeedback # null THEN null
  ELSE IF ~XCorrect(piece.current, piece.target) /\ XCorrect(newCurrent, piece.target)
    THEN "positionX"
  ELSE IF ~YCorrect(piece.current, piece.target) /\ YCorrect(newCurrent, piece.target)
    THEN "positionY"
  ELSE IF ~RotationCorrect(piece.current, piece.target)
          /\ RotationCorrect(newCurrent, piece.target)
    THEN "rotation"
  ELSE IF ~ScaleCorrect(piece.current, piece.target) /\ ScaleCorrect(newCurrent, piece.target)
    THEN "scale"
  ELSE null

updatePieceTransform(st, id, transform) ==
  IF ~HasPiece(st.pieces, id) THEN st
  ELSE
    LET piece == Find(st.pieces, id)
        newCurrent == Merge(piece.current, transform)
        feedback == FeedbackFor(st, piece, newCurrent)
    IN [st EXCEPT
          !.pieces = [i \in 1..Len(st.pieces) |->
                        IF st.pieces[i].id = id
                        THEN [st.pieces[i] EXCEPT !.current = newCurrent]
                        ELSE st.pieces[i]],
          !.activeFeedback = IF feedback # null THEN feedback ELSE st.activeFeedback,
          !.feedbackPieceId = IF feedback # null THEN id ELSE st.feedbackPieceId,
          !.feedbackTargetPos = IF feedback # null
                                THEN Some([x |-> piece.target.x, y |-> piece.target.y])
                                ELSE st.feedbackTargetPos,
          !.feedbackTimers = IF feedback # null THEN @ + 1 ELSE @]

setGameState(st, state) == [st EXCEPT !.gameState = state]

(* addActionLog that puts the new entry first *)
addActionLogPrepends(st, log, t) ==
  [st EXCEPT !.actionLogs = << [pieceId |-> log.pieceId, type |-> log.type,
                                payload |-> log.payload,
                                timestamp |-> t - st.gameStartTime] >> \o @]

addActionLog(st, log, t) ==
  [st EXCEPT !.actionLogs = Append(@, [pieceId |-> log.pieceId, type |-> log.type,
                                       payload |-> log.payload,
                                       timestamp |-> t - st.gameStartTime])]

(* checkWinCondition that puts the game back to PLAYING when no rating is  *)
(* earned                                                                  *)
checkWinConditionDemotes(st) ==
  IF st.levelConfig = 0 THEN st
  ELSE
    LET totalError == calculateError(st.pieces)
        rating == getWinRating(totalError)
    IN IF rating # null
       THEN [st EXCEPT !.totalError = totalError, !.winRating = rating, !.gameState = "WIN"]
       ELSE [st EXCEPT !.totalError = totalError, !.gameState = "PLAYING"]

checkWinCondition(st) ==
  IF st.levelConfig = 0 THEN st
  ELSE
    LET totalError == calculateError(st.pieces)
        rating == getWinRating(totalError)
    IN IF rating # null
       THEN [st EXCEPT !.totalError = totalError, !.winRating = rating, !.gameState = "WIN"]
       ELSE [st EXCEPT !.totalError = totalError]

resetLevel(st, t) == IF st.levelConfig # 0 THEN loadLevel(st, st.levelConfig, t) ELSE st

setSnapSize(st, size) == [st EXCEPT !.snapSize = size]

ActualSnap(snapSize) == IF snapSize = 1 THEN 500 ELSE IF snapSize = 5 THEN 1000 ELSE 2000


(***************************************************************************)
(* Calls a handler makes into the store, in order.  A handler's effect on  *)
(* the store is RunCalls of its calls; the variable effects keeps the      *)
(* calls and callbacks of the latest handler.                              *)
(***************************************************************************)
Call(op, id, arg) == [op |-> op, id |-> id, arg |-> arg]

ApplyCall(st, c, t) ==
  CASE c.op = "selectPiece" -> selectPiece(st, c.id)
    [] c.op = "addActionLog" -> addActionLog(st, c.arg, t)
    [] c.op = "updatePieceTransform" -> updatePieceTransform(st, c.id, c.arg)
    [] c.op = "checkWinCondition" -> checkWinCondition(st)
    [] c.op = "setGameState" -> setGameState(st, c.arg)
    [] OTHER -> st

RECURSIVE RunCalls(_, _, _)
RunCalls(st, calls, t) ==
  IF calls = <<>> THEN st
  ELSE RunCalls(ApplyCall(st, Head(calls), t), Tail(calls), t)

(***************************************************************************)
(* GameCanvas: the callbacks handed to the engine.                         *)
(***************************************************************************)
Log(id, type, payload) ==
  Call("addActionLog", id, [pieceId |-> id, type |-> type, payload |-> payload])

onPieceSelect(id) == << Call("onPieceSelect", id, None), Call("selectPiece", id, None) >>

onPieceTransformEnd(st, id, x, y) ==
  << Call("onPieceTransformEnd", id, [x |-> x, y |-> y]) >>
  \o (IF HasPiece(st.pieces, id)
      THEN << Log(id, "drag", [fromX |-> Find(st.pieces, id).current.x,
                               fromY |-> Find(st.pieces, id).current.y,
                               toX |-> x, toY |-> y]) >>
      ELSE << >>)
  \o << Call("updatePieceTransform", id, [x |-> x, y |-> y]),
        Call("checkWinCondition", null, None) >>

onDoubleTap(pieceId) ==
  << Call("onDoubleTap", pieceId, None), Call("selectPiece", pieceId, None) >>

onRotate(st, pieceId, rotation) ==
  << Call("onRotate", pieceId, [rotation |-> rotation]) >>
  \o (IF HasPiece(st.pieces, pieceId)
      THEN << Log(pieceId, "rotate",
                  [fromRotation |-> Find(st.pieces, pieceId).current.rotation,
                   toRotation |-> rotation]) >>
      ELSE << >>)
  \o << Call("updatePieceTransform", pieceId, [rotation |-> rotation]),
        Call("checkWinCondition", null, None) >>

onScale(st, pieceId, scaleX, scaleY) ==
  << Call("onScale", pieceId, [scaleX |-> scaleX, scaleY |-> scaleY]) >>
  \o (IF HasPiece(st.pieces, pieceId)
      THEN << Log(pieceId, "scale",
                  [fromScaleX |-> Find(st.pieces, pieceId).current.scaleX,
                   fromScaleY |-> Find(st.pieces, pieceId).current.scaleY,
                   toScaleX |-> scaleX, toScaleY |-> scaleY]) >>
      ELSE << >>)
  \o << Call("updatePieceTransform", pieceId, [scaleX |-> scaleX, scaleY |-> scaleY]),
        Call("checkWinCondition", null, None) >>

getSnapState(st) == [enabled |-> TRUE, size |-> ActualSnap(st.snapSize)]

(***************************************************************************)
(* GameEngine                                                              *)
(***************************************************************************)
SpriteOf(tr) ==
  [x |-> tr.x, y |-> tr.y, rotation |-> degToRad(tr.rotation),
   scaleX |-> tr.scaleX, scaleY |-> tr.scaleY]

(* The engine object.  alive: the PIXI application exists (false before    *)
(* construction and after destroy()).  levelConfig: the level the engine   *)
(* was constructed for (0: none).  loading: the state of the loadPieces()  *)
(* call: k > 0 while it awaits createPiece of the k-th piece, 0 when it is *)
(* not running, Rejected when it has ended with an exception.              *)
Rejected == -1

EngineInit ==
  [alive |-> FALSE, levelConfig |-> 0, loading |-> 0,
   pieceSprites |-> <<>>, selectedPieceId |-> null,
   isDragging |-> FALSE, draggingPieceId |-> null,
   dragOffset |-> [x |-> 0, y |-> 0], targetPosition |-> [x |-> 0, y |-> 0],
   lastTapTime |-> 0, animationFrameId |-> null,
   lastSnappedX |-> 0, lastSnappedY |-> 0, activeTouches |-> {}]

HasSprite(eng, id) == \E i \in 1..Len(eng.pieceSprites) : eng.pieceSprites[i].id = id
Sprite(eng, id) ==
  (CHOOSE s \in {eng.pieceSprites[i] : i \in 1..Len(eng.pieceSprites)} : s.id = id).sprite

SetSprite(eng, id, sprite) ==
  [eng EXCEPT !.pieceSprites =
     [i \in 1..Len(eng.pieceSprites) |->
        IF eng.pieceSprites[i].id = id
        THEN [id |-> id, sprite |-> sprite] ELSE eng.pieceSprites[i]]]

(* updatePiece(id, transform) with a full transform, as GameCanvas calls it *)
updatePiece(eng, id, transform) ==
  IF ~HasSprite(eng, id) THEN eng ELSE SetSprite(eng, id, SpriteOf(transform))

setSelectedPiece(eng, id) == [eng EXCEPT !.selectedPieceId = id]

startRenderLoop(eng) == [eng EXCEPT !.animationFrameId = "frame"]

(* createPiece that goes on with a destroyed application *)
createPieceUnguarded(eng, k) ==
  [eng EXCEPT !.pieceSprites =
     Append(@, [id |-> levels[eng.levelConfig].pieces[k].id,
                sprite |-> SpriteOf(levels[eng.levelConfig].pieces[k].start_transform)])]

(* createPiece of the k-th piece, from the point where its await of the    *)
(* texture returns.  What follows uses this.app.renderer and               *)
(* this.app.stage; destroy() has called this.app.destroy(), after which    *)
(* the application has neither, so that on a destroyed engine the call     *)
(* ends with a TypeError.                                                  *)
createPiece(eng, k) ==
  IF ~eng.alive THEN [eng EXCEPT !.loading = Rejected]
  ELSE [eng EXCEPT !.pieceSprites =
          Append(@, [id |-> levels[eng.levelConfig].pieces[k].id,
                     sprite |-> SpriteOf(levels[eng.levelConfig].pieces[k].start_transform)])]

(* loadPieces, from the point where its await of createPiece returns *)
loadPieces(eng) ==
  LET e1 == createPiece(eng, eng.loading)
  IN IF e1.loading = Rejected THEN e1
     ELSE IF eng.loading < Len(levels[eng.levelConfig].pieces)
     THEN [e1 EXCEPT !.loading = @ + 1]
     ELSE startRenderLoop([e1 EXCEPT !.loading = 0])

(* The sticky snap with a threshold of a whole cell. *)
StickyAxisWholeCell(raw, lastSnapped, snapSize) ==
  IF snapSize > 0
  THEN IF Abs(raw - lastSnapped) >= snapSize
       THEN RoundToGrid(raw, snapSize) ELSE lastSnapped
  ELSE raw

(* The sticky snap that leaves the axis alone when the size is not positive. *)
StickyAxisKeepsLast(raw, lastSnapped, snapSize) ==
  IF snapSize > 0
  THEN IF 2 * Abs(raw - lastSnapped) >= snapSize
       THEN RoundToGrid(raw, snapSize) ELSE lastSnapped
  ELSE lastSnapped

(* One axis of the sticky snap of the globalpointermove handler. *)
StickyAxis(raw, lastSnapped, snapSize) ==
  IF snapSize > 0
  THEN IF 2 * Abs(raw - lastSnapped) >= snapSize
       THEN RoundToGrid(raw, snapSize) ELSE lastSnapped
  ELSE raw

(***************************************************************************)
(* State.                                                                  *)
(*   store     the zustand store (gameStore)                               *)
(*   engine    the GameEngine object GameCanvas holds in engineRef         *)
(*   game      the Game component's state                                  *)
(*   controls  the TransformControls component's state and refs            *)
(*   intervals the running window.setInterval callbacks with the values    *)
(*             their closures captured                                     *)
(*   pinch     usePinchZoom: the viewport state and gestureRef             *)
(*   touches   the touches now on the screen: identifier -> position       *)
(*   now       Date.now()                                                  *)
(*   effects   the names of the callbacks and store calls made by the      *)
(*             latest handler, in order                                    *)
(* History variables, read by no handler:                                  *)
(*   dragSuspended  a second touch was active at some point of the drag    *)
(*                  now in progress                                        *)
(*   snapTrace      the <<raw x, snapped x>> of the pointer-moves of the   *)
(*                  drag now in progress (recorded in SnapSpec only)       *)
(*   events         the number of handlers run so far in the session       *)
(*   call           the latest call made from outside into the store or    *)
(*                  the replay player, with its arguments                  *)
(* The replay player:                                                      *)
(*   replay    the ReplayPlayer component's state while it is shown        *)
(***************************************************************************)
VARIABLES store, engine, game, controls, intervals, pinch, touches, now,
          effects, dragSuspended, snapTrace, events, replay, call

vars == <<store, engine, game, controls, intervals, pinch, touches, now,
          effects, dragSuspended, snapTrace, events, replay, call>>

NoCall == Call(null, null, None)

(* ReplayPlayer is not mounted *)
ReplayClosed ==
  [open |-> FALSE, isPlaying |-> FALSE, currentIndex |-> -1, playbackSpeed |-> 3,
   replayPieces |-> << >>, timeout |-> None]

Epoch == 1000
TapWindow == 300

GameInit ==
  [currentLevelIndex |-> 1, levelConfig |-> 0, showTargetPreview |-> TRUE,
   gameReady |-> FALSE, levelEffect |-> TRUE, replayTimeout |-> 0]

ControlsInit == [activeControl |-> null, startValues |-> None, controlInterval |-> 0]

PinchInit ==
  [scale |-> 100, translateX |-> 0, translateY |-> 0,
   gesture |-> [isGesturing |-> FALSE, startDistance |-> 0, startScale |-> 100,
                startCenterX |-> 0, startCenterY |-> 0,
                startTranslateX |-> 0, startTranslateY |-> 0]]

Init ==
  /\ store = StoreInit
  /\ engine = EngineInit
  /\ game = GameInit
  /\ controls = ControlsInit
  /\ intervals = {}
  /\ pinch = PinchInit
  /\ touches = << >>
  /\ now = Epoch
  /\ effects = << >>
  /\ dragSuspended = FALSE
  /\ snapTrace = << >>
  /\ events = 0
  /\ replay = ReplayClosed
  /\ call = NoCall

(***************************************************************************)
(* GameCanvas: the effects that follow a render.  A change of the store's  *)
(* selectedPieceId is passed to engine.setSelectedPiece; a new pieces      *)
(* array (every updatePieceTransform of a known piece makes one) is passed *)
(* piece by piece to engine.updatePiece.                                   *)
(***************************************************************************)
RECURSIVE SyncPieces(_, _)
SyncPieces(eng, pieces) ==
  IF pieces = <<>> THEN eng
  ELSE SyncPieces(updatePiece(eng, Head(pieces).id, Head(pieces).current), Tail(pieces))

PiecesReplaced(st, calls) ==
  \E i \in 1..Len(calls) :
    calls[i].op = "updatePieceTransform" /\ HasPiece(st.pieces, calls[i].id)

AfterRender(eng, old, new, calls) ==
  IF ~eng.alive THEN eng
  ELSE LET e1 == IF new.selectedPieceId # old.selectedPieceId
                 THEN setSelectedPiece(eng, new.selectedPieceId) ELSE eng
       IN IF PiecesReplaced(old, calls) THEN SyncPieces(e1, new.pieces) ELSE e1

(* A handler that leaves the engine as eng and makes the calls. *)
Handled(eng, calls) ==
  /\ store' = RunCalls(store, calls, now)
  /\ Len(store'.actionLogs) <= MaxLog
  /\ store'.feedbackTimers <= MaxTimers
  /\ engine' = AfterRender(eng, store, store', calls)
  /\ effects' = [i \in 1..Len(calls) |-> calls[i].op]
  /\ dragSuspended' =
       /\ engine'.isDragging
       /\ Cardinality(engine'.activeTouches) >= 2
          \/ (dragSuspended /\ ~\E i \in 1..Len(calls) :
                                    calls[i].op \in {"onPieceSelect", "onDoubleTap"})

(* more than two touches *)
ThreeTouches(eng) == Cardinality(eng.activeTouches) > 2

TwoTouches(eng) == Cardinality(eng.activeTouches) > 1

(* Game: the effect that calls resetView when gameState becomes WINNING or WIN *)
resetView(p) == [p EXCEPT !.scale = 100, !.translateX = 0, !.translateY = 0]

ViewAfter(p) ==
  IF store'.gameState # store.gameState /\ store'.gameState \in {"WINNING", "WIN"}
  THEN resetView(p) ELSE p

(* The pointer at (gx, gy) is over the sprite: a 100 x 100 shape centred on it *)
HitTest(sprite, gx, gy) ==
  /\ 2 * Abs(gx - sprite.x) <= sprite.scaleX * 100
  /\ 2 * Abs(gy - sprite.y) <= sprite.scaleY * 100

(***************************************************************************)
(* GameEngine: pointer handlers of a piece's sprite                        *)
(***************************************************************************)
CanvasLive == engine.alive /\ game.gameReady

(* a quick second pointer-down counts as a double-tap on any piece *)
isDoubleTapAnyPiece(eng, pieceId, t) == t - eng.lastTapTime < TapWindow

isDoubleTap(eng, pieceId, t) ==
  t - eng.lastTapTime < TapWindow /\ eng.selectedPieceId = pieceId

PointerDown(pieceId, gx, gy) ==
  /\ CanvasLive /\ HasSprite(engine, pieceId)
  /\ HitTest(Sprite(engine, pieceId), gx, gy)
  /\ LET sprite == Sprite(engine, pieceId) IN
     IF TwoTouches(engine) THEN Handled(engine, << >>)
     ELSE IF isDoubleTap(engine, pieceId, now)
     THEN Handled([engine EXCEPT !.lastTapTime = 0], onDoubleTap(pieceId))
     ELSE Handled([engine EXCEPT
                     !.lastTapTime = now,
                     !.selectedPieceId = pieceId,
                     !.isDragging = TRUE,
                     !.draggingPieceId = pieceId,
                     !.lastSnappedX = sprite.x,
                     !.lastSnappedY = sprite.y,
                     !.targetPosition = [x |-> sprite.x, y |-> sprite.y],
                     !.dragOffset = [x |-> sprite.x - gx, y |-> sprite.y - gy]],
                  onPieceSelect(pieceId))
  /\ pinch' = ViewAfter(pinch)
  /\ UNCHANGED <<game, controls, intervals, touches, now, snapTrace>>

(* the handler rounding both axes as soon as one of them has moved half a  *)
(* cell                                                                    *)
globalpointermoveCoupled(eng, gx, gy, snapSize) ==
  LET newRawX == gx + eng.dragOffset.x
      newRawY == gy + eng.dragOffset.y
      moved == \/ 2 * Abs(newRawX - eng.lastSnappedX) >= snapSize
               \/ 2 * Abs(newRawY - eng.lastSnappedY) >= snapSize
      nextX == IF snapSize <= 0 THEN newRawX
               ELSE IF moved THEN RoundToGrid(newRawX, snapSize) ELSE eng.lastSnappedX
      nextY == IF snapSize <= 0 THEN newRawY
               ELSE IF moved THEN RoundToGrid(newRawY, snapSize) ELSE eng.lastSnappedY
  IN [eng EXCEPT !.lastSnappedX = nextX, !.lastSnappedY = nextY,
                 !.targetPosition = [x |-> nextX, y |-> nextY]]

(* the handler moving the sprite itself, with no buffered target *)
globalpointermoveUnbuffered(eng, gx, gy, snapSize) ==
  LET newRawX == gx + eng.dragOffset.x
      newRawY == gy + eng.dragOffset.y
      nextX == StickyAxis(newRawX, eng.lastSnappedX, snapSize)
      nextY == StickyAxis(newRawY, eng.lastSnappedY, snapSize)
  IN SetSprite([eng EXCEPT !.lastSnappedX = nextX, !.lastSnappedY = nextY,
                           !.targetPosition = [x |-> nextX, y |-> nextY]],
               eng.draggingPieceId,
               [Sprite(eng, eng.draggingPieceId) EXCEPT !.x = nextX, !.y = nextY])

globalpointermove(eng, gx, gy, snapSize) ==
  LET newRawX == gx + eng.dragOffset.x
      newRawY == gy + eng.dragOffset.y
      nextX == StickyAxis(newRawX, eng.lastSnappedX, snapSize)
      nextY == StickyAxis(newRawY, eng.lastSnappedY, snapSize)
  IN [eng EXCEPT !.lastSnappedX = nextX, !.lastSnappedY = nextY,
                 !.targetPosition = [x |-> nextX, y |-> nextY]]

(* the handler with this.getSnapState() returning the size snapSize *)
PointerMovedWith(gx, gy, snapSize) ==
  /\ CanvasLive
  /\ IF ~engine.isDragging \/ ~HasSprite(engine, engine.draggingPieceId)
        \/ TwoTouches(engine)
     THEN Handled(engine, << >>)
     ELSE Handled(globalpointermove(engine, gx, gy, snapSize), << >>)
  /\ pinch' = ViewAfter(pinch)
  /\ UNCHANGED <<game, controls, intervals, touches, now>>

PointerMoved(gx, gy) == PointerMovedWith(gx, gy, getSnapState(store).size)

PointerMove(gx, gy) == PointerMoved(gx, gy) /\ UNCHANGED snapTrace

(* a pointer-move of a drag in progress, recorded in snapTrace *)
DragMove(gx, gy) ==
  /\ engine.isDragging /\ ~TwoTouches(engine)
  /\ Len(snapTrace) < MaxMoves
  /\ PointerMoved(gx, gy)
  /\ snapTrace' = Append(snapTrace,
       [size |-> getSnapState(store).size,
        rawX |-> gx + engine.dragOffset.x, rawY |-> gy + engine.dragOffset.y,
        beforeX |-> engine.lastSnappedX, beforeY |-> engine.lastSnappedY,
        afterX |-> engine'.lastSnappedX, afterY |-> engine'.lastSnappedY])

pointerup(eng, pieceId) ==
  SetSprite([eng EXCEPT !.isDragging = FALSE, !.draggingPieceId = null], pieceId,
            [Sprite(eng, pieceId) EXCEPT !.x = eng.lastSnappedX, !.y = eng.lastSnappedY])

PointerUp(pieceId) ==
  /\ CanvasLive /\ HasSprite(engine, pieceId)
  /\ IF engine.isDragging /\ engine.draggingPieceId = pieceId
     THEN Handled(pointerup(engine, pieceId),
                  onPieceTransformEnd(store, pieceId, engine.lastSnappedX, engine.lastSnappedY))
     ELSE Handled(engine, << >>)
  /\ pinch' = ViewAfter(pinch)
  /\ UNCHANGED <<game, controls, intervals, touches, now, snapTrace>>

PointerUpOutside(pieceId) ==
  /\ CanvasLive /\ HasSprite(engine, pieceId)
  /\ IF engine.isDragging /\ engine.draggingPieceId = pieceId
     THEN Handled(pointerup(engine, pieceId),
                  onPieceTransformEnd(store, pieceId, engine.lastSnappedX, engine.lastSnappedY))
     ELSE Handled(engine, << >>)
  /\ pinch' = ViewAfter(pinch)
  /\ UNCHANGED <<game, controls, intervals, touches, now, snapTrace>>

(* pointerdown on the stage itself: no piece was hit *)
StagePointerDown ==
  /\ CanvasLive
  /\ Handled([engine EXCEPT !.selectedPieceId = null], onPieceSelect(null))
  /\ pinch' = ViewAfter(pinch)
  /\ UNCHANGED <<game, controls, intervals, touches, now, snapTrace>>

(* wheel: delta is -1 for deltaY > 0, else 1; key is "shift", "ctrl" or "none" *)
Wheel(delta, key) ==
  /\ CanvasLive
  /\ IF engine.selectedPieceId = null \/ ~HasSprite(engine, engine.selectedPieceId)
     THEN Handled(engine, << >>)
     ELSE LET id == engine.selectedPieceId
              sprite == Sprite(engine, id)
          IN IF key = "shift"
             THEN LET newRotation == normalizeAngle(radToDeg(sprite.rotation) + delta * 500)
                  IN Handled(SetSprite(engine, id,
                                       [sprite EXCEPT !.rotation = degToRad(newRotation)]),
                             onRotate(store, id, newRotation))
             ELSE IF key = "ctrl"
             THEN LET newScaleX == clampScale(sprite.scaleX + delta * 10)
                      newScaleY == clampScale(sprite.scaleY + delta * 10)
                  IN Handled(SetSprite(engine, id,
                                       [sprite EXCEPT !.scaleX = newScaleX,
                                                      !.scaleY = newScaleY]),
                             onScale(store, id, newScaleX, newScaleY))
             ELSE Handled(engine, << >>)
  /\ pinch' = ViewAfter(pinch)
  /\ UNCHANGED <<game, controls, intervals, touches, now, snapTrace>>

(* one animation frame of the render loop *)
RenderTick ==
  /\ engine.animationFrameId # null
  /\ IF engine.isDragging /\ engine.draggingPieceId # null
        /\ HasSprite(engine, engine.draggingPieceId)
     THEN Handled(SetSprite(engine, engine.draggingPieceId,
                            [Sprite(engine, engine.draggingPieceId) EXCEPT
                               !.x = engine.targetPosition.x,
                               !.y = engine.targetPosition.y]), << >>)
     ELSE Handled(engine, << >>)
  /\ pinch' = ViewAfter(pinch)
  /\ UNCHANGED <<game, controls, intervals, touches, now, snapTrace>>

(***************************************************************************)
(* Touches.  A touch event reaches the engine's canvas listener, which     *)
(* tracks the identifiers, and then the viewport's handler (usePinchZoom), *)
(* attached once the game is ready.  touches is e.touches after the event. *)
(***************************************************************************)
NaN == 0

(* Math.sqrt(dx * dx + dy * dy), to the unit below *)
Hypot(dx, dy) ==
  CHOOSE r \in Max(Abs(dx), Abs(dy))..(Abs(dx) + Abs(dy)) :
    r * r <= dx * dx + dy * dy /\ (r + 1) * (r + 1) > dx * dx + dy * dy

getDistance(touch1, touch2) == Hypot(touch1.x - touch2.x, touch1.y - touch2.y)

getCenter(touch1, touch2) ==
  [x |-> (touch1.x + touch2.x) \div 2, y |-> (touch1.y + touch2.y) \div 2]

MinScale == 100
MaxScale == 500

handleTouchStart(p, ts) ==
  IF Len(ts) = 2
  THEN [p EXCEPT !.gesture =
          [isGesturing |-> TRUE,
           startDistance |-> getDistance(ts[1], ts[2]),
           startScale |-> p.scale,
           startCenterX |-> getCenter(ts[1], ts[2]).x,
           startCenterY |-> getCenter(ts[1], ts[2]).y,
           startTranslateX |-> p.translateX,
           startTranslateY |-> p.translateY]]
  ELSE p

(* startScale * currentDistance / startDistance, limited to [minScale,     *)
(* maxScale]; a zero startDistance gives Infinity (limited to maxScale) or *)
(* 0/0 = NaN, which Math.max and Math.min pass through.                    *)
PinchScale(g, currentDistance) ==
  IF g.startScale = NaN THEN NaN
  ELSE IF g.startDistance = 0
  THEN IF currentDistance = 0 THEN NaN ELSE MaxScale
  ELSE Max(MinScale, Min(MaxScale, (g.startScale * currentDistance) \div g.startDistance))

handleTouchMove(p, ts) ==
  IF p.gesture.isGesturing /\ Len(ts) = 2
  THEN [p EXCEPT
          !.scale = PinchScale(p.gesture, getDistance(ts[1], ts[2])),
          !.translateX = p.gesture.startTranslateX
                         + (getCenter(ts[1], ts[2]).x - p.gesture.startCenterX),
          !.translateY = p.gesture.startTranslateY
                         + (getCenter(ts[1], ts[2]).y - p.gesture.startCenterY)]
  ELSE p

handleTouchEnd(p, ts) ==
  IF Len(ts) < 2
  THEN LET q == [p EXCEPT !.gesture.isGesturing = FALSE]
       IN IF p.scale # NaN /\ p.scale < 110 THEN resetView(q) ELSE q
  ELSE p

TouchIds == 1..MaxTouches
TouchIndex(ts, id) == CHOOSE i \in 1..Len(ts) : ts[i].id = id
HasTouch(ts, id) == \E i \in 1..Len(ts) : ts[i].id = id
RemoveTouch(ts, id) == SelectSeq(ts, LAMBDA t : t.id # id)

ViewportLive == game.levelConfig # 0 /\ game.gameReady

TouchStart(id, x, y) ==
  /\ ~HasTouch(touches, id)
  /\ touches' = Append(touches, [id |-> id, x |-> x, y |-> y])
  /\ IF engine.alive
     THEN Handled([engine EXCEPT !.activeTouches = @ \cup {id}], << >>)
     ELSE Handled(engine, << >>)
  /\ pinch' = IF ViewportLive THEN handleTouchStart(pinch, touches') ELSE pinch
  /\ UNCHANGED <<game, controls, intervals, now, snapTrace>>

TouchMove(id, x, y) ==
  /\ HasTouch(touches, id)
  /\ touches[TouchIndex(touches, id)].x # x \/ touches[TouchIndex(touches, id)].y # y
  /\ touches' = [touches EXCEPT ![TouchIndex(touches, id)] = [id |-> id, x |-> x, y |-> y]]
  /\ Handled(engine, << >>)
  /\ pinch' = IF ViewportLive THEN handleTouchMove(pinch, touches') ELSE pinch
  /\ Abs(pinch'.translateX) <= MaxPan /\ Abs(pinch'.translateY) <= MaxPan
  /\ UNCHANGED <<game, controls, intervals, now, snapTrace>>

(* touchend that also commits the selected piece's rotation and scale *)
TouchEndCommits(id) ==
  /\ HasTouch(touches, id)
  /\ touches' = RemoveTouch(touches, id)
  /\ IF engine.alive
     THEN Handled([engine EXCEPT !.activeTouches = @ \ {id}],
                  IF Len(touches) >= 2 /\ Len(touches') < 2 /\ store.selectedPieceId # null
                  THEN << Call("updatePieceTransform", store.selectedPieceId,
                               [rotation |-> 0, scaleX |-> 100, scaleY |-> 100]) >>
                  ELSE << >>)
     ELSE Handled(engine, << >>)
  /\ pinch' = IF ViewportLive THEN handleTouchEnd(pinch, touches') ELSE pinch
  /\ UNCHANGED <<game, controls, intervals, now, snapTrace>>

TouchEnd(id) ==
  /\ HasTouch(touches, id)
  /\ touches' = RemoveTouch(touches, id)
  /\ IF engine.alive
     THEN Handled([engine EXCEPT !.activeTouches = @ \ {id}], << >>)
     ELSE Handled(engine, << >>)
  /\ pinch' = IF ViewportLive THEN handleTouchEnd(pinch, touches') ELSE pinch
  /\ UNCHANGED <<game, controls, intervals, now, snapTrace>>

(* touchcancel: the engine forgets every touch; the viewport has no handler *)
TouchCancel(id) ==
  /\ HasTouch(touches, id)
  /\ touches' = RemoveTouch(touches, id)
  /\ IF engine.alive
     THEN Handled([engine EXCEPT !.activeTouches = {}], << >>)
     ELSE Handled(engine, << >>)
  /\ UNCHANGED <<game, controls, intervals, pinch, now, snapTrace>>

(***************************************************************************)
(* TransformControls                                                       *)
(***************************************************************************)
ControlAction ==
  {"rotate-left", "rotate-right", "scale-up", "scale-down",
   "width-up", "width-down", "height-up", "height-down",
   "move-up", "move-down", "move-left", "move-right"}

(* handleControlAction as closed over selectedPieceId, pieces and snapSize *)
handleControlAction(c, action) ==
  IF c.selectedPieceId = null \/ ~HasPiece(c.pieces, c.selectedPieceId) THEN << >>
  ELSE
    LET cur == Find(c.pieces, c.selectedPieceId).current
        uniformScaleStep == 10
        widthScaleStep == 10
        heightScaleStep == 10
        moveStep == IF c.snapSize = 1 THEN 500 ELSE IF c.snapSize = 5 THEN 1000 ELSE 2000
        arg ==
          CASE action = "rotate-left" -> [rotation |-> cur.rotation - 500]
            [] action = "rotate-right" -> [rotation |-> cur.rotation + 500]
            [] action = "scale-up" -> [scaleX |-> cur.scaleX + uniformScaleStep,
                                       scaleY |-> cur.scaleY + uniformScaleStep]
            [] action = "scale-down" -> [scaleX |-> cur.scaleX - uniformScaleStep,
                                         scaleY |-> cur.scaleY - uniformScaleStep]
            [] action = "width-up" -> [scaleX |-> cur.scaleX + widthScaleStep]
            [] action = "width-down" -> [scaleX |-> cur.scaleX - widthScaleStep]
            [] action = "height-up" -> [scaleY |-> cur.scaleY + heightScaleStep]
            [] action = "height-down" -> [scaleY |-> cur.scaleY - heightScaleStep]
            [] action = "move-up" -> [y |-> cur.y - moveStep]
            [] action = "move-down" -> [y |-> cur.y + moveStep]
            [] action = "move-left" -> [x |-> cur.x - moveStep]
            [] action = "move-right" -> [x |-> cur.x + moveStep]
    IN << Call("updatePieceTransform", c.selectedPieceId, arg),
          Call("checkWinCondition", null, None) >>

Closure(st) ==
  [selectedPieceId |-> st.selectedPieceId, pieces |-> st.pieces, snapSize |-> st.snapSize]

(***************************************************************************)
(* FineTuneOverlay                                                         *)
(***************************************************************************)
Zone == {"TOP", "BOTTOM", "LEFT", "RIGHT", "CENTER"}

(* handleZoneAction as closed over selectedPieceId, pieces and snapSize;   *)
(* snapSize is the stored setting in px                                    *)
handleZoneAction(c, zone) ==
  IF c.selectedPieceId = null \/ ~HasPiece(c.pieces, c.selectedPieceId) THEN << >>
  ELSE IF zone = "CENTER" THEN << Call("setGameState", null, "PLAYING") >>
  ELSE
    LET cur == Find(c.pieces, c.selectedPieceId).current
        snapSize == c.snapSize * 100
        dx == IF zone = "LEFT" THEN -snapSize ELSE IF zone = "RIGHT" THEN snapSize ELSE 0
        dy == IF zone = "TOP" THEN -snapSize ELSE IF zone = "BOTTOM" THEN snapSize ELSE 0
        direction == CASE zone = "TOP" -> "up" [] zone = "BOTTOM" -> "down"
                       [] zone = "LEFT" -> "left" [] zone = "RIGHT" -> "right"
    IN << Call("updatePieceTransform", c.selectedPieceId,
               [x |-> cur.x + dx, y |-> cur.y + dy]),
          Log(c.selectedPieceId, "fine_move", [direction |-> direction]),
          Call("checkWinCondition", null, None) >>

(* The component is mounted while the game is ready; it renders its        *)
(* buttons only with a piece selected and the game not in WIN.             *)
ControlsMounted == game.levelConfig # 0 /\ game.gameReady
ControlsRendered ==
  ControlsMounted /\ store.selectedPieceId # null /\ store.gameState # "WIN"

FreeIntervalId == CHOOSE i \in 1..(MaxIntervals + 1) : \A iv \in intervals : iv.id # i

(* the handler, with at most `most` intervals running after it *)
handleControlDownWithin(action, most) ==
  /\ ControlsRendered
  /\ Cardinality(intervals) < most
  /\ Handled(engine, handleControlAction(Closure(store), action))
  /\ controls' =
       [activeControl |-> action,
        startValues |-> IF HasPiece(store.pieces, store.selectedPieceId)
                        THEN Some(Find(store.pieces, store.selectedPieceId).current)
                        ELSE controls.startValues,
        controlInterval |-> FreeIntervalId]
  /\ intervals' = intervals \cup
       {[id |-> FreeIntervalId, action |-> action, closure |-> Closure(store)]}
  /\ pinch' = ViewAfter(pinch)
  /\ UNCHANGED <<game, touches, now, snapTrace>>

handleControlDown(action) == handleControlDownWithin(action, MaxIntervals)

(* a firing that reads the pieces as they are now *)
IntervalTickFresh(iv) ==
  /\ iv \in intervals
  /\ Handled(engine, handleControlAction(Closure(store), iv.action))
  /\ pinch' = ViewAfter(pinch)
  /\ UNCHANGED <<game, controls, intervals, touches, now, snapTrace>>

(* one firing of a running interval callback *)
IntervalTick(iv) ==
  /\ iv \in intervals
  /\ Handled(engine, handleControlAction(iv.closure, iv.action))
  /\ pinch' = ViewAfter(pinch)
  /\ UNCHANGED <<game, controls, intervals, touches, now, snapTrace>>

StartsWith(action, prefix) ==
  \/ prefix = "rotate" /\ action \in {"rotate-left", "rotate-right"}
  \/ prefix = "move" /\ action \in {"move-up", "move-down", "move-left", "move-right"}

IsScaleAction(action) ==
  action \in {"scale-up", "scale-down", "width-up", "width-down", "height-up", "height-down"}

ControlUpLogs(st, c) ==
  IF st.selectedPieceId # null /\ c.startValues # None /\ c.activeControl # null
     /\ HasPiece(st.pieces, st.selectedPieceId)
  THEN
    LET id == st.selectedPieceId
        start == c.startValues[1]
        cur == Find(st.pieces, id).current
    IN (IF StartsWith(c.activeControl, "rotate") /\ start.rotation # cur.rotation
        THEN << Log(id, "rotate", [fromRotation |-> start.rotation,
                                   toRotation |-> cur.rotation]) >>
        ELSE << >>)
       \o
       (IF IsScaleAction(c.activeControl)
           /\ (start.scaleX # cur.scaleX \/ start.scaleY # cur.scaleY)
        THEN << Log(id, "scale", [fromScaleX |-> start.scaleX, fromScaleY |-> start.scaleY,
                                  toScaleX |-> cur.scaleX, toScaleY |-> cur.scaleY]) >>
        ELSE << >>)
       \o
       (IF StartsWith(c.activeControl, "move") /\ (start.x # cur.x \/ start.y # cur.y)
        THEN << Log(id, "fine_move", [fromX |-> start.x, fromY |-> start.y,
                                      toX |-> cur.x, toY |-> cur.y]) >>
        ELSE << >>)
  ELSE << >>

(* pointer-up, pointer-leave or pointer-cancel on a rendered button *)
handleControlUp ==
  /\ ControlsRendered
  /\ Handled(engine, << Call("handleControlUp", null, None) >> \o ControlUpLogs(store, controls))
  /\ controls' = ControlsInit
  /\ intervals' = {iv \in intervals : iv.id # controls.controlInterval}
  /\ pinch' = ViewAfter(pinch)
  /\ UNCHANGED <<game, touches, now, snapTrace>>

(***************************************************************************)
(* Store timers and settings                                               *)
(***************************************************************************)
(* the 1500 ms timeout set by updatePieceTransform clears the feedback *)
FeedbackTimerFires ==
  /\ store.feedbackTimers > 0
  /\ store' = [store EXCEPT !.activeFeedback = null, !.feedbackPieceId = null,
                            !.feedbackTargetPos = None, !.feedbackTimers = @ - 1,
                            !.staleTimers = Max(0, @ - 1)]
  /\ effects' = << >>
  /\ UNCHANGED <<engine, game, controls, intervals, pinch, touches, now,
                 dragSuspended, snapTrace>>

SnapSizes == {1, 5, 10}

SetSnapSize(size) ==
  /\ game.levelConfig # 0
  /\ size # store.snapSize
  /\ store' = setSnapSize(store, size)
  /\ effects' = << >>
  /\ UNCHANGED <<engine, game, controls, intervals, pinch, touches, now,
                 dragSuspended, snapTrace>>

(***************************************************************************)
(* Game and GameCanvas: mounting and leaving a level                       *)
(***************************************************************************)
destroy(eng) ==
  [eng EXCEPT !.isDragging = FALSE, !.draggingPieceId = null, !.selectedPieceId = null,
              !.lastTapTime = 0, !.animationFrameId = null, !.pieceSprites = << >>,
              !.activeTouches = {}, !.alive = FALSE]

(* setLevelConfig(levels[index]): GameCanvas mounts, its effect loads the  *)
(* level into the store and constructs the engine.                         *)
MountLevel(index) ==
  /\ store' = loadLevel(store, index, now)
  /\ engine' = IF levels[index].pieces = << >>
               THEN startRenderLoop([EngineInit EXCEPT !.alive = TRUE, !.levelConfig = index])
               ELSE [EngineInit EXCEPT !.alive = TRUE, !.levelConfig = index, !.loading = 1]
  /\ effects' = << "loadLevel" >>
  /\ dragSuspended' = FALSE

LevelEffect ==
  /\ game.levelEffect
  /\ game' = [game EXCEPT !.levelEffect = FALSE, !.levelConfig = game.currentLevelIndex]
  /\ IF game.levelConfig = game.currentLevelIndex
     THEN UNCHANGED <<store, engine, effects, dragSuspended>>
     ELSE MountLevel(game.currentLevelIndex)
  /\ UNCHANGED <<controls, intervals, pinch, touches, now, snapTrace>>

ReplayTimeoutFires ==
  /\ game.replayTimeout # 0
  /\ game' = [game EXCEPT !.replayTimeout = 0, !.levelConfig = game.replayTimeout]
  /\ IF game.levelConfig = game.replayTimeout
     THEN UNCHANGED <<store, engine, effects, dragSuspended>>
     ELSE MountLevel(game.replayTimeout)
  /\ UNCHANGED <<controls, intervals, pinch, touches, now, snapTrace>>

(* the createPiece that engine.loadPieces awaits has ended *)
CreatePieceDone ==
  /\ engine.loading > 0
  /\ engine' = loadPieces(engine)
  /\ effects' = << >>
  /\ UNCHANGED <<store, game, controls, intervals, pinch, touches, now,
                 dragSuspended, snapTrace>>

handleTargetPreviewComplete ==
  /\ game.levelConfig # 0 /\ game.showTargetPreview
  /\ engine.animationFrameId # null
  /\ game' = [game EXCEPT !.showTargetPreview = FALSE, !.gameReady = TRUE]
  /\ effects' = << >>
  /\ UNCHANGED <<store, engine, controls, intervals, pinch, touches, now,
                 dragSuspended, snapTrace>>

(* Leaving the level: the store is reset, GameCanvas unmounts (the engine  *)
(* is destroyed), TransformControls unmounts (its state is dropped; an     *)
(* interval it left running keeps running).                                *)
LeaveLevel(st) ==
  /\ store' = st
  /\ engine' = destroy(engine)
  /\ controls' = ControlsInit
  /\ effects' = << "resetLevel" >>
  /\ dragSuspended' = FALSE
  /\ UNCHANGED <<intervals, pinch, touches, now, snapTrace>>

WinScreenShown == game.levelConfig # 0 /\ store.gameState = "WIN"

(* WinScreen.handleReplay then Game.handleReplay *)
handleReplay ==
  /\ WinScreenShown
  /\ LeaveLevel(resetLevel(resetLevel(store, now), now))
  /\ game' = [game EXCEPT !.levelConfig = 0, !.showTargetPreview = TRUE,
                          !.gameReady = FALSE, !.replayTimeout = game.currentLevelIndex]

handleNextLevel ==
  /\ WinScreenShown
  /\ IF game.currentLevelIndex < Len(levels)
     THEN /\ LeaveLevel(resetLevel(store, now))
          /\ game' = [game EXCEPT !.levelConfig = 0, !.showTargetPreview = TRUE,
                                  !.gameReady = FALSE, !.levelEffect = TRUE,
                                  !.currentLevelIndex = @ + 1]
     ELSE /\ effects' = << "alert" >>
          /\ UNCHANGED <<store, engine, game, controls, intervals, pinch, touches, now,
                         dragSuspended, snapTrace>>

handleSelectLevel(index) ==
  /\ game.levelConfig # 0
  /\ LeaveLevel(resetLevel(store, now))
  /\ game' = [game EXCEPT !.levelConfig = 0, !.showTargetPreview = TRUE,
                          !.gameReady = FALSE, !.currentLevelIndex = index,
                          !.levelEffect = (@ \/ index # game.currentLevelIndex)]

(* the clock advances *)
Tick ==
  /\ now < Epoch + MaxNow * TapWindow
  /\ now' = now + TapWindow
  /\ effects' = << >>
  /\ UNCHANGED <<store, engine, game, controls, intervals, pinch, touches,
                 dragSuspended, snapTrace>>

(***************************************************************************)
(* The game: every handler, with inputs from small sets                    *)
(***************************************************************************)
PointerXs == {1000, 12000}
MoveXs == {12000, 12300}
PointerYs == {0}
WheelDeltas == {1}
WheelKeys == {"shift", "ctrl"}
Pressed == {"rotate-left", "move-right"}
TouchX(id) == (id - 1) * 10000

(***************************************************************************)
(* ReplayPlayer: the shadow piece set and applyAction                      *)
(***************************************************************************)
ReplayInit(config) ==
  [i \in 1..Len(configs[config].pieces) |->
     [id |-> configs[config].pieces[i].id,
      current |-> configs[config].pieces[i].start_transform]]

(* applyAction that drops the shadow state on an unknown piece *)
applyActionDropsAll(prev, action) ==
  IF ~HasPiece(prev, action.pieceId) THEN << >> ELSE prev

applyAction(prev, action) ==
  IF ~HasPiece(prev, action.pieceId) THEN prev
  ELSE
    LET piece == Find(prev, action.pieceId).current
        pl == action.payload
        updatedPiece ==
          CASE action.type = "drag" ->
                 [piece EXCEPT !.x = IF Has(pl, "toX") THEN pl.toX ELSE @,
                               !.y = IF Has(pl, "toY") THEN pl.toY ELSE @]
            [] action.type = "fine_move" ->
                 IF ~Has(pl, "direction") THEN piece
                 ELSE CASE pl.direction = "up" -> [piece EXCEPT !.y = @ - 100]
                        [] pl.direction = "down" -> [piece EXCEPT !.y = @ + 100]
                        [] pl.direction = "left" -> [piece EXCEPT !.x = @ - 100]
                        [] pl.direction = "right" -> [piece EXCEPT !.x = @ + 100]
                        [] OTHER -> piece
            [] action.type = "rotate" ->
                 [piece EXCEPT !.rotation = IF Has(pl, "toRotation") THEN pl.toRotation ELSE @]
            [] action.type = "scale" ->
                 [piece EXCEPT !.scaleX = IF Has(pl, "toScaleX") THEN pl.toScaleX ELSE @,
                               !.scaleY = IF Has(pl, "toScaleY") THEN pl.toScaleY ELSE @]
            [] OTHER -> piece
    IN [i \in 1..Len(prev) |->
          IF prev[i].id = action.pieceId
          THEN [id |-> prev[i].id, current |-> updatedPiece] ELSE prev[i]]

RECURSIVE Replay(_, _)
Replay(prev, logs) ==
  IF logs = << >> THEN prev ELSE Replay(applyAction(prev, Head(logs)), Tail(logs))

(* The component right after mounting: its initial state, then the effect  *)
(* that fills replayPieces from the level's start transforms.              *)
ReplayMounted(st) ==
  [ReplayClosed EXCEPT
     !.open = TRUE,
     !.replayPieces = IF st.levelConfig # 0 THEN ReplayInit(st.levelConfig) ELSE << >>]

(* the playback effect that never stops the playback *)
PlaybackEffectKeepsPlaying(r, st) == r

(* The playback effect, run after a render: at the last entry it stops the *)
(* playback; otherwise, while playing, it keeps one timeout pending for    *)
(* the entry after currentIndex.                                           *)
PlaybackEffect(r, st) ==
  IF r.currentIndex >= Len(st.actionLogs) - 1 THEN [r EXCEPT !.isPlaying = FALSE] ELSE r

resetReplay(r, st) ==
  [r EXCEPT !.isPlaying = FALSE, !.currentIndex = -1,
            !.replayPieces = IF st.levelConfig # 0 THEN ReplayInit(st.levelConfig) ELSE @]

togglePlay(r, st) ==
  IF r.currentIndex >= Len(st.actionLogs) - 1
  THEN [resetReplay(r, st) EXCEPT !.isPlaying = TRUE]
  ELSE [r EXCEPT !.isPlaying = ~r.isPlaying]

(* actionLogs[i] of the source is actionLogs[i + 1] here *)
stepForward(r, st) ==
  IF r.currentIndex < Len(st.actionLogs) - 1
  THEN [r EXCEPT !.currentIndex = r.currentIndex + 1,
                 !.replayPieces = applyAction(@, st.actionLogs[r.currentIndex + 2])]
  ELSE r

(* stepBackward that undoes nothing: it only moves the index *)
stepBackwardIndexOnly(r, st) ==
  IF r.currentIndex >= 0 THEN [r EXCEPT !.currentIndex = r.currentIndex - 1] ELSE r

stepBackward(r, st) ==
  IF r.currentIndex >= 0
  THEN LET targetIndex == r.currentIndex - 1
           r1 == resetReplay(r, st)
       IN [r1 EXCEPT !.replayPieces = Replay(@, SubSeq(st.actionLogs, 1, targetIndex + 1)),
                     !.currentIndex = targetIndex]
  ELSE r

(* the timeout that moves the index and applies nothing *)
playbackTimeoutIndexOnly(r, st) ==
  [r EXCEPT !.currentIndex = r.currentIndex + 1]

(* the pending playback timeout fires *)
playbackTimeout(r, st) ==
  [r EXCEPT !.currentIndex = r.currentIndex + 1,
            !.replayPieces = applyAction(@, st.actionLogs[r.currentIndex + 2])]

(* A session runs at most MaxEvents handlers. *)
(* The handlers of the game do not touch the replay player. *)
Session ==
  /\ events < MaxEvents /\ events' = events + 1
  /\ replay' = replay /\ call' = NoCall

Next ==
  \/ Session /\ LevelEffect
  \/ Session /\ ReplayTimeoutFires
  \/ Session /\ CreatePieceDone
  \/ Session /\ handleTargetPreviewComplete
  \/ Session /\ \E p \in PieceIds, gx \in PointerXs, gy \in PointerYs : PointerDown(p, gx, gy)
  \/ Session /\ \E gx \in MoveXs, gy \in PointerYs : PointerMove(gx, gy)
  \/ Session /\ \E p \in PieceIds : PointerUp(p)
  \/ Session /\ \E p \in PieceIds : PointerUpOutside(p)
  \/ Session /\ StagePointerDown
  \/ Session /\ \E d \in WheelDeltas, k \in WheelKeys : Wheel(d, k)
  \/ Session /\ RenderTick
  \/ Session /\ \E a \in Pressed : handleControlDown(a)
  \/ Session /\ \E iv \in intervals : IntervalTick(iv)
  \/ Session /\ handleControlUp
  \/ Session /\ FeedbackTimerFires
  \/ Session /\ handleReplay
  \/ Session /\ handleNextLevel
  \/ Session /\ \E i \in 1..Len(levels) : handleSelectLevel(i)
  \/ Session /\ \E id \in TouchIds : TouchStart(id, TouchX(id), 0)
  \/ Session /\ \E id \in TouchIds : TouchEnd(id)
  \/ Session /\ \E id \in TouchIds : TouchCancel(id)
  \/ Session /\ \E size \in SnapSizes : SetSnapSize(size)
  \/ Session /\ Tick

Spec == Init /\ [][Next]_vars

(***************************************************************************)
(* One recorded drag on the first level, with the pointer going through    *)
(* chosen points.                                                          *)
(***************************************************************************)
DragPoints ==
  {<<1000, 0>>, <<1400, 0>>, <<1900, 700>>, <<2600, 0>>, <<3100, 0>>, <<12200, 0>>}

Unbounded == UNCHANGED events /\ replay' = replay /\ call' = NoCall

SnapNext ==
  \/ Unbounded /\ LevelEffect
  \/ Unbounded /\ CreatePieceDone
  \/ Unbounded /\ handleTargetPreviewComplete
  \/ Unbounded /\ ~engine.isDragging /\ store.snapSize = 1 /\ SetSnapSize(5)
  \/ Unbounded /\ ~engine.isDragging /\ store.actionLogs = << >>
        /\ \E p \in PieceIds, gx \in PointerXs : PointerDown(p, gx, 0)
  \/ Unbounded /\ \E pt \in DragPoints : DragMove(pt[1], pt[2])
  \/ Unbounded /\ \E p \in PieceIds : PointerUp(p)

SnapSpec == Init /\ [][SnapNext]_vars

(***************************************************************************)
(* Two-finger gestures over a loaded level with a piece selected.  The     *)
(* first touch rests at x = 0; the second moves along the x axis.          *)
(***************************************************************************)
PinchXs == {0, 10000, 20000}

PinchNext ==
  \/ Unbounded /\ LevelEffect
  \/ Unbounded /\ CreatePieceDone
  \/ Unbounded /\ handleTargetPreviewComplete
  \/ Unbounded /\ ~engine.isDragging /\ store.actionLogs = << >> /\ PointerDown("B", 1000, 0)
  \/ Unbounded /\ PointerUp("B")
  \/ Unbounded /\ TouchStart(1, 0, 0)
  \/ Unbounded /\ \E x \in PinchXs : TouchStart(2, x, 0)
  \/ Unbounded /\ \E x \in PinchXs : TouchMove(2, x, 0)
  \/ Unbounded /\ \E id \in TouchIds : TouchEnd(id)

PinchSpec == Init /\ [][PinchNext]_vars

(***************************************************************************)
(* The store and the replay player under calls from outside: the store's   *)
(* functions with arguments from small sets, and the replay player's       *)
(* buttons.  The replay player covers the game while it is shown: no other *)
(* call is made then, but timeouts still fire.                             *)
(***************************************************************************)
CallIds == {"A", "Z"}
CallTransforms == { [x |-> 500], [x |-> 12005], [rotation |-> 36000] }
CallLogs ==
  { [pieceId |-> "A", type |-> "drag", payload |-> [toX |-> 500, toY |-> 0]],
    [pieceId |-> "Z", type |-> "drag", payload |-> [toX |-> 500, toY |-> 0]] }

StoreCalled(c, st) ==
  /\ ~replay.open
  /\ store' = st
  /\ Len(store'.actionLogs) <= MaxLog
  /\ store'.feedbackTimers <= MaxTimers
  /\ call' = c
  /\ effects' = << c.op >>
  /\ UNCHANGED <<engine, game, controls, intervals, pinch, touches, now,
                 dragSuspended, snapTrace, events, replay>>

ReplayCalled(op, r) ==
  /\ replay.open /\ store.levelConfig # 0
  /\ replay' = PlaybackEffect(r, store)
  /\ call' = Call(op, null, None)
  /\ effects' = << >>
  /\ UNCHANGED <<store, engine, game, controls, intervals, pinch, touches, now,
                 dragSuspended, snapTrace, events>>

ReplayMount ==
  /\ ~replay.open
  /\ replay' = PlaybackEffect(ReplayMounted(store), store)
  /\ call' = Call("mount", null, None)
  /\ effects' = << >>
  /\ UNCHANGED <<store, engine, game, controls, intervals, pinch, touches, now,
                 dragSuspended, snapTrace, events>>

ReplayUnmount ==
  /\ replay.open
  /\ replay' = ReplayClosed
  /\ call' = Call("onClose", null, None)
  /\ effects' = << >>
  /\ UNCHANGED <<store, engine, game, controls, intervals, pinch, touches, now,
                 dragSuspended, snapTrace, events>>

PlaybackTimeoutFires ==
  /\ replay.isPlaying /\ replay.currentIndex < Len(store.actionLogs) - 1
  /\ ReplayCalled("timeout", playbackTimeout(replay, store))

StoreNext ==
  \/ \E i \in 1..Len(configs) :
        StoreCalled(Call("loadLevel", null, i), loadLevel(store, i, now))
  \/ StoreCalled(Call("resetLevel", null, None), resetLevel(store, now))
  \/ \E id \in CallIds \cup {null} :
        StoreCalled(Call("selectPiece", id, None), selectPiece(store, id))
  \/ \E id \in CallIds, tr \in CallTransforms :
        StoreCalled(Call("updatePieceTransform", id, tr), updatePieceTransform(store, id, tr))
  \/ \E log \in CallLogs :
        StoreCalled(Call("addActionLog", log.pieceId, log), addActionLog(store, log, now))
  \/ StoreCalled(Call("checkWinCondition", null, None), checkWinCondition(store))
  \/ Unbounded /\ FeedbackTimerFires
  \/ ReplayMount
  \/ ReplayUnmount
  \/ ReplayCalled("togglePlay", togglePlay(replay, store))
  \/ ReplayCalled("resetReplay", resetReplay(replay, store))
  \/ ReplayCalled("stepForward", stepForward(replay, store))
  \/ ReplayCalled("stepBackward", stepBackward(replay, store))
  \/ PlaybackTimeoutFires

StoreSpec == Init /\ [][StoreNext]_vars

(***************************************************************************)
(* Taps: pointer-downs and pointer-ups on the pieces of the first level,   *)
(* with touches on the screen and the clock advancing in steps shorter     *)
(* than the double-tap window.  call records each pointer-down.            *)
(***************************************************************************)
Input(c) == UNCHANGED events /\ replay' = replay /\ call' = c

Waits == {200}

\* The fingers on the screen are the first two.
TapTouchIds == {1, 2}

Wait(ms) ==
  /\ now + ms <= Epoch + MaxNow * TapWindow
  /\ now' = now + ms
  /\ effects' = << >>
  /\ UNCHANGED <<store, engine, game, controls, intervals, pinch, touches,
                 dragSuspended, snapTrace>>

TapNext ==
  \/ Unbounded /\ LevelEffect
  \/ Unbounded /\ CreatePieceDone
  \/ Unbounded /\ handleTargetPreviewComplete
  \/ \E p \in PieceIds, gx \in PointerXs :
        Input(Call("pointerdown", p, None)) /\ PointerDown(p, gx, 0)
  \/ Unbounded /\ \E p \in PieceIds : PointerUp(p)
  \/ Unbounded /\ \E id \in TapTouchIds : TouchStart(id, TouchX(id), 0)
  \/ Unbounded /\ \E id \in TapTouchIds : TouchEnd(id)
  \/ Unbounded /\ \E ms \in Waits : Wait(ms)

TapSpec == Init /\ [][TapNext]_vars

(***************************************************************************)
(* Mounting, loading and leaving levels, with pointer input on the ready   *)
(* level and the clock advancing.                                          *)
(***************************************************************************)
LoadNext ==
  \/ Unbounded /\ LevelEffect
  \/ Unbounded /\ CreatePieceDone
  \/ Unbounded /\ handleTargetPreviewComplete
  \/ Unbounded /\ RenderTick
  \/ Unbounded /\ \E i \in 1..Len(levels) : handleSelectLevel(i)
  \/ Unbounded /\ \E p \in PieceIds, gx \in PointerXs : PointerDown(p, gx, 0)
  \/ Unbounded /\ \E p \in PieceIds : PointerUp(p)
  \/ Unbounded /\ StagePointerDown
  \/ Unbounded /\ \E ms \in Waits : Wait(ms)

LoadSpec == Init /\ [][LoadNext]_vars

(***************************************************************************)
(* The engine under a caller whose getSnapState reports any size, the      *)
(* sizes that are not positive included.  call records each pointer-move   *)
(* with the size reported to it, and each animation frame.                 *)
(***************************************************************************)
ReportedSizes == {-1000, 0, 500, 1000}
RawPoints == {<<12345, 7>>, <<1003, -250>>, <<1100, 800>>}

RawNext ==
  \/ Unbounded /\ LevelEffect
  \/ Unbounded /\ CreatePieceDone
  \/ Unbounded /\ handleTargetPreviewComplete
  \/ Unbounded /\ ~engine.isDragging /\ store.actionLogs = << >>
        /\ \E p \in PieceIds, gx \in PointerXs : PointerDown(p, gx, 0)
  \/ \E pt \in RawPoints, size \in ReportedSizes :
        /\ Input(Call("globalpointermove", null, [x |-> pt[1], y |-> pt[2], size |-> size]))
        /\ PointerMovedWith(pt[1], pt[2], size)
        /\ UNCHANGED snapTrace
  \/ Input(Call("animate", null, None)) /\ RenderTick
  \/ Unbounded /\ \E id \in TapTouchIds : TouchStart(id, TouchX(id), 0)
  \/ Unbounded /\ \E id \in TapTouchIds : TouchEnd(id)
  \/ Unbounded /\ \E p \in PieceIds : PointerUp(p)

RawSpec == Init /\ [][RawNext]_vars

(***************************************************************************)
(* The replay player over an action log of the first level, written into   *)
(* the store by addActionLog before the player is opened: nudges by        *)
(* direction and drags of the same piece, which do not commute.  The       *)
(* playback effect keeps one timeout pending while isPlaying holds and an  *)
(* entry is left; a change of the speed sets it anew.                      *)
(***************************************************************************)
PlayLogs ==
  { [pieceId |-> "A", type |-> "fine_move", payload |-> [direction |-> "right"]],
    [pieceId |-> "A", type |-> "drag", payload |-> [toX |-> 500, toY |-> 0]],
    [pieceId |-> "B", type |-> "drag", payload |-> [toX |-> 500, toY |-> 0]] }

PlaybackSpeeds == {1, 10}

PlayNext ==
  \/ store.levelConfig = 0
        /\ StoreCalled(Call("loadLevel", null, 1), loadLevel(store, 1, now))
  \/ \E log \in PlayLogs :
        /\ store.levelConfig # 0
        /\ StoreCalled(Call("addActionLog", log.pieceId, log), addActionLog(store, log, now))
  \/ store.levelConfig # 0 /\ ReplayMount
  \/ ReplayUnmount
  \/ ReplayCalled("togglePlay", togglePlay(replay, store))
  \/ ReplayCalled("resetReplay", resetReplay(replay, store))
  \/ ReplayCalled("stepForward", stepForward(replay, store))
  \/ ReplayCalled("stepBackward", stepBackward(replay, store))
  \/ \E speed \in PlaybackSpeeds :
        ReplayCalled("setPlaybackSpeed", [replay EXCEPT !.playbackSpeed = speed])
  \/ PlaybackTimeoutFires

PlaySpec == Init /\ [][PlayNext]_vars

(* every playback timeout that stays pending fires *)
PlayLiveSpec == PlaySpec /\ WF_vars(PlaybackTimeoutFires)

(***************************************************************************)
(* Fine moves on the first two levels, loaded into the store: the move      *)
(* buttons of TransformControls and the zones of FineTuneOverlay, each     *)
(* handler rendered with the store as it is, under every snap setting.  No *)
(* handler of the game sets FINE_TUNE; here setGameState('FINE_TUNE') is   *)
(* called from outside while PLAYING.  Once the level is won the buttons   *)
(* and the overlay are gone; transforms still arrive from the engine's     *)
(* handlers, followed by checkWinCondition.  events counts the nudges.     *)
(***************************************************************************)
MoveActions == {"move-up", "move-down", "move-left", "move-right"}

WinTransforms == { [x |-> 0], [rotation |-> 9000] }

Nudged(c, calls) ==
  /\ store.selectedPieceId # null
  /\ events < MaxNudges /\ events' = events + 1
  /\ store' = RunCalls(store, calls, now)
  /\ Len(store'.actionLogs) <= MaxLog
  /\ store'.feedbackTimers <= MaxTimers
  /\ call' = c
  /\ effects' = [i \in 1..Len(calls) |-> calls[i].op]
  /\ UNCHANGED <<engine, game, controls, intervals, pinch, touches, now,
                 dragSuspended, snapTrace, replay>>

NudgeNext ==
  \/ \E i \in 1..2 :
        /\ store.gameState \in {"IDLE", "WIN"}
        /\ StoreCalled(Call("loadLevel", null, i), loadLevel(store, i, now))
  \/ store.gameState = "WIN"
        /\ StoreCalled(Call("resetLevel", null, None), resetLevel(store, now))
  \/ \E id \in PieceIds :
        HasPiece(store.pieces, id)
          /\ StoreCalled(Call("selectPiece", id, None), selectPiece(store, id))
  \/ \E size \in SnapSizes :
        StoreCalled(Call("setSnapSize", null, size), setSnapSize(store, size))
  \/ store.gameState = "PLAYING"
        /\ StoreCalled(Call("setGameState", null, "FINE_TUNE"),
                       setGameState(store, "FINE_TUNE"))
  \/ \E action \in MoveActions :
        /\ store.gameState # "WIN"
        /\ Nudged(Call("handleControlAction", store.selectedPieceId, action),
                  handleControlAction(Closure(store), action))
  \/ \E zone \in Zone :
        /\ store.gameState = "FINE_TUNE"
        /\ Nudged(Call("handleZoneAction", store.selectedPieceId, zone),
                  handleZoneAction(Closure(store), zone))
  \/ \E id \in PieceIds, tr \in WinTransforms :
        /\ store.gameState = "WIN" /\ HasPiece(store.pieces, id)
        /\ StoreCalled(Call("updatePieceTransform", id, tr),
                       updatePieceTransform(store, id, tr))
  \/ store.gameState = "WIN"
        /\ StoreCalled(Call("checkWinCondition", null, None), checkWinCondition(store))

NudgeSpec == Init /\ [][NudgeNext]_vars

(***************************************************************************)
(* Rotate steps of +5 degrees on piece B of the first level, selected by a *)
(* pointer-down: presses and releases of the rotate-right button, the      *)
(* repeats of a held button, and shift-wheel notches.  Here events counts  *)
(* the rotate steps made so far.                                           *)
(***************************************************************************)
RotateStep ==
  /\ store.selectedPieceId = "B" /\ engine.selectedPieceId = "B"
  /\ events < MaxSteps /\ events' = events + 1
  /\ replay' = replay
  /\ call' = Call("rotate-right", store.selectedPieceId, None)

RotateNext ==
  \/ Unbounded /\ LevelEffect
  \/ Unbounded /\ CreatePieceDone
  \/ Unbounded /\ handleTargetPreviewComplete
  \/ Unbounded /\ store.selectedPieceId = null /\ PointerDown("B", 1000, 0)
  \/ Unbounded /\ PointerUp("B")
  \/ RotateStep /\ handleControlDown("rotate-right")
  \/ RotateStep /\ \E iv \in intervals : IntervalTick(iv)
  \/ Unbounded /\ handleControlUp
  \/ RotateStep /\ Wheel(1, "shift")

RotateSpec == Init /\ [][RotateNext]_vars

(***************************************************************************)
(* Held buttons on the first level: presses of a rotate, a scale and a     *)
(* move button, also                                                       *)
(* of a second button while the first is still down (two pointers), the    *)
(* repeats of the running intervals, releases, and shift-wheel notches in  *)
(* between.  call records each of these events; events counts them.        *)
(***************************************************************************)
HeldActions == {"rotate-left", "scale-down", "move-right"}

HoldEvent(c) ==
  /\ events < MaxHolds /\ events' = events + 1
  /\ replay' = replay
  /\ call' = c

HoldNext ==
  \/ Unbounded /\ LevelEffect
  \/ Unbounded /\ CreatePieceDone
  \/ Unbounded /\ handleTargetPreviewComplete
  \/ Unbounded /\ store.selectedPieceId = null
        /\ \E p \in PieceIds : PointerDown(p, Sprite(engine, p).x, 0)
  \/ Unbounded /\ \E p \in PieceIds : PointerUp(p)
  \/ \E action \in HeldActions :
        HoldEvent(Call("pointerdown", null, action))
          /\ handleControlDownWithin(action, MaxHeld)
  \/ \E iv \in intervals :
        HoldEvent(Call("interval", iv.id, iv.action)) /\ IntervalTick(iv)
  \/ HoldEvent(Call("pointerup", null, None)) /\ handleControlUp
  \/ HoldEvent(Call("wheel", null, None)) /\ Wheel(1, "shift")

HoldSpec == Init /\ [][HoldNext]_vars

(***************************************************************************)
(* The utils applied to numbers from a bounded set: angles around every    *)
(* quarter turn, and the small numbers that hold the limits of clampScale  *)
(* and the tiers of getWinRating.  call holds the function applied last,   *)
(* its argument and its result; a function is also applied to the result   *)
(* of the one before; getWinRating is applied to what calculateError can   *)
(* return, the numbers from 0 up.  Beside them, levels are loaded and      *)
(* drags committed through onPieceTransformEnd.                            *)
(***************************************************************************)
UtilInputs ==
  {k * 9000 + d : k \in -MaxQuarters..MaxQuarters, d \in -2..2} \cup 0..MaxSmall

CommitXs == {0, 500}

UtilInit ==
  /\ store = StoreInit
  /\ engine = EngineInit
  /\ game = GameInit
  /\ controls = ControlsInit
  /\ intervals = {}
  /\ pinch = PinchInit
  /\ touches = << >>
  /\ now = Epoch
  /\ effects = << >>
  /\ dragSuspended = FALSE
  /\ snapTrace = << >>
  /\ events = 0
  /\ replay = ReplayClosed
  /\ \E v \in UtilInputs : call = Call("input", null, [out |-> v])

Applied(op, in, out) ==
  /\ call.op \in {"input", "normalizeAngle", "clampScale"}
  /\ call' = Call(op, null, [in |-> in, out |-> out])
  /\ UNCHANGED <<store, engine, game, controls, intervals, pinch, touches, now,
                 effects, dragSuspended, snapTrace, events, replay>>

UtilNext ==
  \/ Applied("normalizeAngle", call.arg.out, normalizeAngle(call.arg.out))
  \/ Applied("clampScale", call.arg.out, clampScale(call.arg.out))
  \/ call.op \in {"input", "normalizeAngle", "clampScale"} /\ call.arg.out >= 0
        /\ Applied("getWinRating", call.arg.out, getWinRating(call.arg.out))
  \/ \E i \in 1..Len(configs) :
        StoreCalled(Call("loadLevel", null, i), loadLevel(store, i, now))
  \/ \E id \in PieceIds, x \in CommitXs :
        /\ HasPiece(store.pieces, id)
        /\ StoreCalled(Call("onPieceTransformEnd", id, [x |-> x, y |-> 0]),
                       RunCalls(store, onPieceTransformEnd(store, id, x, 0), now))

UtilSpec == UtilInit /\ [][UtilNext]_vars

(***************************************************************************)
(* Properties                                                              *)
(***************************************************************************)
Transforms(pieces) == [i \in 1..Len(pieces) |-> [id |-> pieces[i].id, current |-> pieces[i].current]]

(* No gesture or button press is in progress on a loaded level. *)
SessionAtRest ==
  /\ store.levelConfig # 0
  /\ ~engine.isDragging
  /\ controls.activeControl = null
  /\ intervals = {}

\* C1: with the session at rest, replaying actionLogs with applyAction from the
\* pieces' start_transform gives exactly the transforms the store holds.
C1_ReplayDeterminism ==
  SessionAtRest =>
    Replay(ReplayInit(store.levelConfig), store.actionLogs) = Transforms(store.pieces)

SameLevel == store'.levelConfig = store.levelConfig /\ "loadLevel" \notin Range(effects')
             /\ "resetLevel" \notin Range(effects')

ButtonStep == effects' # << >> /\ effects'[1] = "updatePieceTransform"

\* C2: a step that changes a piece's transform appends exactly one log entry,
\* or is a button step that leaves the buttons rendered, so that its
\* pointer-up can still log it.
C2_EveryMutationLogged ==
  [][(SameLevel /\ Transforms(store'.pieces) # Transforms(store.pieces))
       => \/ Len(store'.actionLogs) = Len(store.actionLogs) + 1
          \/ ButtonStep /\ ControlsRendered']_vars

\* C3: while the game stays in WIN, winRating does not change.
C3_RatingFixedAfterWin ==
  [][(store.gameState = "WIN" /\ store'.gameState = "WIN")
       => store'.winRating = store.winRating]_vars

\* C4: the step that first sets winRating moves the game to WINNING, and no
\* step takes the game from PLAYING or FINE_TUNE directly to WIN.
C4_WinningBeforeWin ==
  [][/\ (store.winRating = null /\ store'.winRating # null)
          => store'.gameState = "WINNING"
     /\ store.gameState \in {"PLAYING", "FINE_TUNE"} => store'.gameState # "WIN"]_vars

\* C5: while the game stays in WIN, no piece's transform changes and nothing
\* is appended to actionLogs.
C5_WinBlocksManipulation ==
  [][(store.gameState = "WIN" /\ store'.gameState = "WIN")
       => /\ Transforms(store'.pieces) = Transforms(store.pieces)
          /\ store'.actionLogs = store.actionLogs]_vars

\* C6: every stored transform has rotation in [-180, 180] and both scales in
\* [0.5, 2.0].
C6_StoredTransformsNormalized ==
  \A i \in 1..Len(store.pieces) :
    /\ store.pieces[i].current.rotation \in -18000..18000
    /\ store.pieces[i].current.scaleX \in 50..200
    /\ store.pieces[i].current.scaleY \in 50..200

Count(seq, x) == Cardinality({i \in 1..Len(seq) : seq[i] = x})

\* C8: a step of the live engine in which a piece stops being the dragged
\* piece makes exactly one onPieceTransformEnd commit, of the last snapped
\* position, followed by win evaluation.
C8_DragEndCommitsOnce ==
  [][(/\ engine.isDragging /\ engine'.alive
      /\ ~(engine'.isDragging /\ engine'.draggingPieceId = engine.draggingPieceId))
       => /\ Count(effects', "onPieceTransformEnd") = 1
          /\ effects'[Len(effects')] = "checkWinCondition"
          /\ HasPiece(store'.pieces, engine.draggingPieceId)
          /\ Find(store'.pieces, engine.draggingPieceId).current.x = engine.lastSnappedX
          /\ Find(store'.pieces, engine.draggingPieceId).current.y = engine.lastSnappedY]_vars

\* C9: once a second touch has been active during a drag, the drag target and
\* the snapped position stay as they are until a new pointer-down.
C9_SuspendedDragStaysSuspended ==
  [][(dragSuspended /\ dragSuspended')
       => /\ engine'.targetPosition = engine.targetPosition
          /\ engine'.lastSnappedX = engine.lastSnappedX
          /\ engine'.lastSnappedY = engine.lastSnappedY]_vars

(* c is the grid point Math.round(raw / s) * s *)
IsRounded(c, raw, s) == c % s = 0 /\ 2 * (c - raw) <= s /\ 2 * (raw - c) < s

StickyRule(s, raw, before, after) ==
  IF 2 * Abs(raw - before) >= s THEN IsRounded(after, raw, s) ELSE after = before

RawXs(trace) == [i \in 1..Len(trace) |-> trace[i].rawX]
AfterXs(trace) == [i \in 1..Len(trace) |-> trace[i].afterX]

\* C7: on every pointer-move of a drag with grid size s > 0, each axis's
\* snapped coordinate becomes round(raw/s)*s if |raw - lastSnapped| >= s/2 and
\* otherwise keeps its value; with s = 10 and the snapped x starting at 10, the
\* raw x values 10, 14, 19, 26, 31 give 10, 10, 20, 30, 30.
C7_StickySnap ==
  /\ \A i \in 1..Len(snapTrace) :
        /\ snapTrace[i].size > 0
        /\ StickyRule(snapTrace[i].size, snapTrace[i].rawX,
                      snapTrace[i].beforeX, snapTrace[i].afterX)
        /\ StickyRule(snapTrace[i].size, snapTrace[i].rawY,
                      snapTrace[i].beforeY, snapTrace[i].afterY)
        /\ i > 1 => /\ snapTrace[i].beforeX = snapTrace[i - 1].afterX
                    /\ snapTrace[i].beforeY = snapTrace[i - 1].afterY
  /\ (/\ Len(snapTrace) = 5
      /\ snapTrace[1].size = 1000 /\ snapTrace[1].beforeX = 1000
      /\ RawXs(snapTrace) = <<1000, 1400, 1900, 2600, 3100>>)
       => AfterXs(snapTrace) = <<1000, 1000, 2000, 3000, 3000>>

\* C7 witness: the drag of the example has been made with grid size 10, and
\* on its third move the y axis has snapped too, from 0 to 10.
C7_Witness ==
  /\ Len(snapTrace) = 5
  /\ snapTrace[1].size = 1000 /\ snapTrace[1].beforeX = 1000
  /\ RawXs(snapTrace) = <<1000, 1400, 1900, 2600, 3100>>
  /\ AfterXs(snapTrace) = <<1000, 1000, 2000, 3000, 3000>>
  /\ snapTrace[3].afterY = 1000

PinchEnds == Len(touches) >= 2 /\ Len(touches') < 2 /\ store.selectedPieceId # null

C11_StaleTimerChangesNothing ==
  [][store'.staleTimers < store.staleTimers
       => /\ store'.activeFeedback = store.activeFeedback
          /\ store'.feedbackPieceId = store.feedbackPieceId
          /\ store'.feedbackTargetPos = store.feedbackTargetPos]_vars

\* C12: a step made by the long-press repeat (one that begins with the
\* button's updatePieceTransform) happens only while the buttons are
\* rendered: a level is mounted and ready, a piece is selected and the game
\* is not in WIN.
C12_NoTickAfterTeardown ==
  [][ButtonStep => ControlsRendered]_vars

EngineCallbacks ==
  {"onPieceSelect", "onPieceTransformEnd", "onDoubleTap", "onRotate", "onScale"}

OnTarget(pieces) == \A i \in 1..Len(pieces) : pieces[i].current = pieces[i].target

\* C16: calculateError of the stored pieces is never negative, and it is 0
\* exactly when every piece's current transform equals its target transform.
C16_ErrorZeroIffOnTarget ==
  /\ calculateError(store.pieces) >= 0
  /\ calculateError(store.pieces) = 0 <=> OnTarget(store.pieces)

NextEntry == store.actionLogs[replay.currentIndex + 2]

\* C14: updatePieceTransform with an id that matches no piece leaves the whole
\* store as it is and sets no timeout; a replay step (by button or by
\* playback timeout) over an entry whose pieceId matches no shadow piece
\* leaves the shadow pieces as they are.
C14_UnknownPieceIsNoOp ==
  [][/\ (call'.op = "updatePieceTransform" /\ ~HasPiece(store.pieces, call'.id))
          => store' = store
     /\ (/\ call'.op \in {"stepForward", "timeout"}
         /\ replay.currentIndex < Len(store.actionLogs) - 1
         /\ ~HasPiece(replay.replayPieces, NextEntry.pieceId))
          => /\ replay'.replayPieces = replay.replayPieces
             /\ replay'.currentIndex = replay.currentIndex + 1]_vars

\* C14 witness: on a loaded level, updatePieceTransform has just been called
\* with an id no piece has, while the log holds an entry for an unknown piece
\* as well.
C14_Witness ==
  /\ call.op = "updatePieceTransform"
  /\ store.levelConfig # 0
  /\ ~HasPiece(store.pieces, call.id)
  /\ \E i \in 1..Len(store.actionLogs) :
        ~HasPiece(store.pieces, store.actionLogs[i].pieceId)

\* C15: stepBackward at index i >= 0 leaves the replay at index i - 1 with the
\* shadow pieces equal to entries 0..i-1 applied in order to the start
\* transforms, and at index -1 it changes nothing; a stepBackward after a
\* stepForward gives back the shadow pieces and index from before the
\* stepForward.
C15_StepBackwardReplaysPrefix ==
  [][/\ call'.op = "stepBackward"
          => IF replay.currentIndex >= 0
             THEN /\ replay'.currentIndex = replay.currentIndex - 1
                  /\ replay'.replayPieces =
                       Replay(ReplayInit(store.levelConfig),
                              SubSeq(store.actionLogs, 1, replay.currentIndex))
             ELSE replay' = replay
     /\ (call'.op = "stepForward" /\ replay'.currentIndex = replay.currentIndex + 1)
          => /\ stepBackward(replay', store').currentIndex = replay.currentIndex
             /\ stepBackward(replay', store').replayPieces = replay.replayPieces]_vars

\* C15 witness: stepBackward has just gone back from the second entry to the
\* first, and the first entry has moved a piece off its start transform.
C15_Witness ==
  /\ call.op = "stepBackward"
  /\ replay.currentIndex = 0
  /\ Len(store.actionLogs) = 2
  /\ replay.replayPieces # ReplayInit(store.levelConfig)

\* C17: the step of a loadLevel, or of a resetLevel with a level loaded,
\* leaves the store with exactly the level's pieces, each at its start
\* transform with its target transform, an empty log, no rating, no error,
\* no selection, no feedback, and gameState PLAYING.
C17_LoadResetsAtomically ==
  [][(call'.op = "loadLevel" \/ (call'.op = "resetLevel" /\ store.levelConfig # 0))
       => /\ store'.levelConfig =
               (IF call'.op = "loadLevel" THEN call'.arg ELSE store.levelConfig)
          /\ store'.pieces =
               [i \in 1..Len(configs[store'.levelConfig].pieces) |->
                  [id |-> configs[store'.levelConfig].pieces[i].id,
                   current |-> configs[store'.levelConfig].pieces[i].start_transform,
                   target |-> configs[store'.levelConfig].pieces[i].target_transform]]
          /\ store'.actionLogs = << >>
          /\ store'.winRating = null
          /\ store'.totalError = 0
          /\ store'.selectedPieceId = null
          /\ store'.activeFeedback = null
          /\ store'.feedbackPieceId = null
          /\ store'.feedbackTargetPos = None
          /\ store'.gameState = "PLAYING"]_vars

\* C17 witness: resetLevel has just been called on a level in which a piece
\* had been moved so that a feedback was raised, its timeout still pending.
C17_Witness ==
  /\ call.op = "resetLevel"
  /\ store.levelConfig # 0
  /\ store.staleTimers > 0

\* C18: a step in which the engine signals a double-tap while the game is
\* PLAYING moves the game to FINE_TUNE.
C18_DoubleTapEntersFineTune ==
  [][("onDoubleTap" \in Range(effects') /\ store.gameState = "PLAYING")
       => store'.gameState = "FINE_TUNE"]_vars

\* C19: a pointer-down on a piece while more than one touch is active leaves
\* the engine (selection, tap time, drag state, dragged piece, drag offset,
\* last snapped position) and the store as they are and makes no callback.
C19_SecondTouchPointerDownIgnored ==
  [][(call'.op = "pointerdown" /\ Cardinality(engine.activeTouches) > 1)
       => /\ engine' = engine
          /\ store' = store
          /\ effects' = << >>]_vars

\* C19 witness: with a drag in progress and two touches active, a
\* pointer-down has just come on a piece other than the dragged one.
C19_Witness ==
  /\ call.op = "pointerdown"
  /\ Cardinality(engine.activeTouches) = 2
  /\ engine.isDragging
  /\ call.id # engine.draggingPieceId

\* C20: a pointer-down (with at most one touch active) on the selected piece
\* less than 300 ms after the recorded tap signals the double-tap once,
\* leaves the drag state alone and sets the tap time back to 0, which makes
\* the next pointer-down an ordinary one; any other pointer-down signals no
\* double-tap, selects the piece, records the tap time and starts its drag.
C20_DoubleTap ==
  [][(call'.op = "pointerdown" /\ Cardinality(engine.activeTouches) <= 1)
       => IF now - engine.lastTapTime < 300 /\ engine.selectedPieceId = call'.id
          THEN /\ Count(effects', "onDoubleTap") = 1
               /\ "onPieceSelect" \notin Range(effects')
               /\ engine'.isDragging = engine.isDragging
               /\ engine'.draggingPieceId = engine.draggingPieceId
               /\ engine'.lastTapTime = 0
               /\ now - engine'.lastTapTime >= 300
          ELSE /\ "onDoubleTap" \notin Range(effects')
               /\ Count(effects', "onPieceSelect") = 1
               /\ engine'.isDragging
               /\ engine'.draggingPieceId = call'.id
               /\ engine'.selectedPieceId = call'.id
               /\ engine'.lastTapTime = now]_vars

\* C20 witness: some time after a tap that selected it, but within the
\* window, the selected piece has just been tapped again: the double-tap
\* was signalled and no drag is in progress.
C20_Witness ==
  /\ call.op = "pointerdown"
  /\ effects = << "onDoubleTap", "selectPiece" >>
  /\ engine.selectedPieceId = call.id
  /\ engine.lastTapTime = 0
  /\ ~engine.isDragging
  /\ now = Epoch + 200

\* C21: a pointer-move of the drag in progress (at most one touch active) for
\* which the snap size is 0 or negative sets the drag target and the last
\* snapped position to the pointer position plus the drag offset on both
\* axes, whatever grid the position lies on.
C21_UnsnappedPassthrough ==
  [][(/\ call'.op = "globalpointermove" /\ call'.arg.size <= 0
      /\ engine.isDragging /\ ~TwoTouches(engine))
       => /\ engine'.targetPosition = [x |-> call'.arg.x + engine.dragOffset.x,
                                       y |-> call'.arg.y + engine.dragOffset.y]
          /\ engine'.lastSnappedX = engine'.targetPosition.x
          /\ engine'.lastSnappedY = engine'.targetPosition.y]_vars

\* C21 witness: a pointer-move with snap size 0 has put the drag target on a
\* position whose x is on no grid and lies 0.03 px from the piece's x.
C21_Witness ==
  /\ call.op = "globalpointermove" /\ call.arg.size = 0
  /\ engine.isDragging
  /\ engine.targetPosition = [x |-> 1003, y |-> -250]

\* C31: a pointer-move changes nothing but the engine's drag target and last
\* snapped position, which agree after it: the store (piece transforms and
\* actionLogs included) and every sprite stay as they are and no store
\* function is called; an animation frame during a drag puts the dragged
\* sprite on the drag target as the latest pointer-move left it and changes
\* nothing else.
C31_MovesAreBuffered ==
  [][/\ call'.op = "globalpointermove"
          => /\ store' = store /\ effects' = << >>
             /\ engine' = [engine EXCEPT !.targetPosition = engine'.targetPosition,
                                         !.lastSnappedX = engine'.lastSnappedX,
                                         !.lastSnappedY = engine'.lastSnappedY]
             /\ (engine.isDragging /\ ~TwoTouches(engine))
                  => engine'.targetPosition =
                       [x |-> engine'.lastSnappedX, y |-> engine'.lastSnappedY]
     /\ (call'.op = "animate" /\ engine.isDragging)
          => /\ store' = store /\ effects' = << >>
             /\ engine' = SetSprite(engine, engine.draggingPieceId,
                                    [Sprite(engine, engine.draggingPieceId) EXCEPT
                                       !.x = engine.targetPosition.x,
                                       !.y = engine.targetPosition.y])]_vars

\* C31 witness: an animation frame has moved the dragged sprite B from
\* (10, 0) to the target of the latest pointer-move, (11, 10), while the
\* store still holds the piece at (10, 0) and no action is logged.
C31_Witness ==
  /\ call.op = "animate" /\ engine.isDragging /\ engine.draggingPieceId = "B"
  /\ Sprite(engine, "B").x = 1100 /\ Sprite(engine, "B").y = 1000
  /\ engine.targetPosition = [x |-> 1100, y |-> 1000]
  /\ Find(store.pieces, "B").current.x = 1000
  /\ store.actionLogs = << >>

\* C32: when a level is left (replay, next level, level selection: the step
\* that resets the store and unmounts the canvas), the render loop is stopped
\* and no timer set during the level is left pending: no feedback timeout
\* and no repeat interval.
C32_TeardownCancelsTimers ==
  [][(game.levelConfig # 0 /\ game'.levelConfig = 0)
       => /\ engine'.animationFrameId = null
          /\ store'.feedbackTimers = 0
          /\ intervals' = {}]_vars

\* C33: on a pointer-move of a drag with snap size s > 0, an axis whose raw
\* coordinate is less than half a cell from its last snapped coordinate keeps
\* that coordinate, whatever the other axis does.
C33_AxesIndependent ==
  [][(/\ call'.op = "globalpointermove" /\ call'.arg.size > 0
      /\ engine.isDragging /\ ~TwoTouches(engine))
       => LET rawX == call'.arg.x + engine.dragOffset.x
              rawY == call'.arg.y + engine.dragOffset.y
          IN /\ 2 * Abs(rawY - engine.lastSnappedY) < call'.arg.size
                  => engine'.lastSnappedY = engine.lastSnappedY
             /\ 2 * Abs(rawX - engine.lastSnappedX) < call'.arg.size
                  => engine'.lastSnappedX = engine.lastSnappedX]_vars

\* C33 witness: a move to (11, 8) with snap size 10, made with piece B's last
\* snapped position off the grid at (10.03, -2.5), has snapped y to 10 and
\* left x at 10.03.
C33_Witness ==
  /\ call.op = "globalpointermove" /\ call.arg = [x |-> 1100, y |-> 800, size |-> 1000]
  /\ engine.isDragging /\ engine.draggingPieceId = "B"
  /\ engine.dragOffset = [x |-> 0, y |-> 0]
  /\ engine.lastSnappedX = 1003 /\ engine.lastSnappedY = 1000

OthersKept(id) ==
  \A i \in 1..Len(store.pieces) :
    store.pieces[i].id # id => store'.pieces[i] = store.pieces[i]

PlaybackFinished ==
  /\ replay.open /\ ~replay.isPlaying
  /\ replay.currentIndex = Len(store.actionLogs) - 1
  /\ replay.replayPieces = Replay(ReplayInit(store.levelConfig), store.actionLogs)

PlaybackStopped ==
  \/ ~replay.open
  \/ ~replay.isPlaying /\ call.op \in {"togglePlay", "resetReplay", "stepBackward"}

\* C40: a playback running on a non-empty log leads to the log applied up to
\* its last entry with isPlaying false, unless it is paused, reset, stepped
\* back or closed before; and togglePlay at the end of a non-empty log puts
\* the shadow pieces back on the start transforms with currentIndex -1 and
\* isPlaying true, from where the playback runs again.
C40_PlaybackCompletes ==
  /\ (replay.isPlaying /\ store.actionLogs # << >>)
       ~> (PlaybackFinished \/ PlaybackStopped)
  /\ [][(/\ call'.op = "togglePlay" /\ store.actionLogs # << >>
          /\ replay.currentIndex >= Len(store.actionLogs) - 1)
           => replay' = [replay EXCEPT
                           !.isPlaying = TRUE, !.currentIndex = -1,
                           !.replayPieces = ReplayInit(store.levelConfig)]]_vars

\* C40 witness: the playback timeout has applied the last of two entries and
\* the playback has stopped by itself.
C40_Witness ==
  /\ call.op = "timeout" /\ PlaybackFinished
  /\ Len(store.actionLogs) = 2 /\ replay.playbackSpeed = 10

C38_OneInterval ==
  Cardinality(intervals) <= 1

\* C39: a step that starts in WIN ends in WIN unless it is a loadLevel or a
\* resetLevel: transform updates and checkWinCondition calls keep WIN, also
\* with a total error for which no rating is earned.
C39_WinIsKept ==
  [][(store.gameState = "WIN" /\ store'.gameState # "WIN")
       => call'.op \in {"loadLevel", "resetLevel"}]_vars

\* C39 witness: level 2 has been won, its piece has then been turned by 90
\* degrees, and checkWinCondition has stored a total error for which no
\* rating is earned, with the game still in WIN.
C39_Witness ==
  /\ call.op = "checkWinCondition"
  /\ store.gameState = "WIN" /\ store.levelConfig = 2
  /\ getWinRating(store.totalError) = null
  /\ store.totalError = calculateError(store.pieces)
  /\ Find(store.pieces, "C").current.rotation = 9000

\* C36: after a pointer-move of a drag with snap size s > 0, the last snapped
\* position, which is the drag target, is at most s/2 from the raw position
\* on each axis, wherever the piece started and whatever the size was on the
\* moves before.
C36_TargetNearRaw ==
  [][(/\ call'.op = "globalpointermove" /\ call'.arg.size > 0
      /\ engine.isDragging /\ ~TwoTouches(engine))
       => LET rawX == call'.arg.x + engine.dragOffset.x
              rawY == call'.arg.y + engine.dragOffset.y
          IN /\ 2 * Abs(engine'.lastSnappedX - rawX) <= call'.arg.size
             /\ 2 * Abs(engine'.lastSnappedY - rawY) <= call'.arg.size
             /\ engine'.targetPosition =
                  [x |-> engine'.lastSnappedX, y |-> engine'.lastSnappedY]]_vars

\* C36 witness: piece A, picked up off the grid at x = 120.05, has been moved
\* to the raw x 123.5 with snap size 10 and keeps the last snapped x 120.05,
\* 3.45 from the raw x.
C36_Witness ==
  /\ call.op = "globalpointermove" /\ call.arg = [x |-> 12345, y |-> 7, size |-> 1000]
  /\ engine.isDragging /\ engine.draggingPieceId = "A"
  /\ engine.dragOffset.x = 5
  /\ engine.lastSnappedX = 12005 /\ engine.targetPosition.x = 12005

\* C22: a move of a touch during a two-touch gesture whose start distance is
\* 0 leaves the viewport's scale and translation as they are, and the scale
\* stored after any step is a number.
C22_ZeroDistanceGestureIgnored ==
  [][/\ (/\ pinch.gesture.isGesturing /\ pinch.gesture.startDistance = 0
         /\ Len(touches) = 2 /\ Len(touches') = 2 /\ touches' # touches)
          => /\ pinch'.scale = pinch.scale
             /\ pinch'.translateX = pinch.translateX
             /\ pinch'.translateY = pinch.translateY
     /\ pinch'.scale # NaN]_vars

Finite(tr) ==
  /\ DOMAIN tr = {"x", "y", "rotation", "scaleX", "scaleY"}
  /\ \A f \in DOMAIN tr : tr[f] \in Int

WellFormed(config) ==
  /\ config.pieces # << >>
  /\ \A i \in 1..Len(config.pieces) :
        Finite(config.pieces[i].start_transform) /\ Finite(config.pieces[i].target_transform)

\* C23: the step of a loadLevel with a config that has no pieces, or a piece
\* whose start or target transform lacks a field or holds a non-number,
\* leaves the store as it is.
C23_MalformedConfigRejected ==
  [][(call'.op = "loadLevel" /\ ~WellFormed(configs[call'.arg])) => store' = store]_vars

(* the kinds of tolerance the piece enters when its transform goes from   *)
(* was to is                                                               *)
Crossings(was, is, target) ==
  {k \in {"positionX"} : ~XCorrect(was, target) /\ XCorrect(is, target)}
  \cup {k \in {"positionY"} : ~YCorrect(was, target) /\ YCorrect(is, target)}
  \cup {k \in {"rotation"} : ~RotationCorrect(was, target) /\ RotationCorrect(is, target)}
  \cup {k \in {"scale"} : ~ScaleCorrect(was, target) /\ ScaleCorrect(is, target)}

\* C24: the step of an updatePieceTransform that takes a piece into tolerance
\* on an axis raises the feedback of that kind for that piece and sets one
\* auto-clear timeout, whether or not a feedback was active before.
C24_CrossingRaisesFeedback ==
  [][(call'.op = "updatePieceTransform" /\ HasPiece(store.pieces, call'.id))
       => \A k \in Crossings(Find(store.pieces, call'.id).current,
                              Find(store'.pieces, call'.id).current,
                              Find(store.pieces, call'.id).target) :
            /\ store'.activeFeedback = k
            /\ store'.feedbackPieceId = call'.id
            /\ store'.feedbackTimers = store.feedbackTimers + 1]_vars

\* C27: after n rotate steps of +5 degrees on piece B, whose rotation starts
\* at r0, the stored rotation of B is normalizeAngle(r0 + 5n).
C27_RotateStepsAccumulate ==
  HasPiece(store.pieces, "B") =>
    LET r0 == levels[1].pieces[2].start_transform.rotation
    IN Find(store.pieces, "B").current.rotation = normalizeAngle(r0 + 500 * events)

\* C25: the result of normalizeAngle lies in [-180, 180], differs from the
\* argument by a multiple of 360, and is left as it is by normalizeAngle.
C25_NormalizeAngle ==
  call.op = "normalizeAngle" =>
    /\ call.arg.out \in -18000..18000
    /\ (call.arg.out - call.arg.in) % 36000 = 0
    /\ normalizeAngle(call.arg.out) = call.arg.out

\* C25 witness: normalizeAngle has been applied to 630.01 degrees, which is
\* more than one turn above the range, and has returned -89.99.
C25_Witness ==
  call.op = "normalizeAngle" /\ call.arg.in = 63001 /\ call.arg.out = -8999

\* C26: the result of clampScale lies in [0.5, 2.0], is the argument when the
\* argument lies in [0.5, 2.0], and is left as it is by clampScale.
C26_ClampScale ==
  call.op = "clampScale" =>
    /\ call.arg.out \in 50..200
    /\ call.arg.in \in 50..200 => call.arg.out = call.arg.in
    /\ clampScale(call.arg.out) = call.arg.out

\* C26 witness: clampScale has been applied to 0.49 and has returned 0.5.
C26_Witness ==
  call.op = "clampScale" /\ call.arg.in = 49 /\ call.arg.out = 50

\* C28: for errors from 0 up, getWinRating gives Perfect exactly for 0, Great exactly for errors
\* above 0 and below 0.01, Good exactly for errors from 0.01 and below 0.1,
\* and no rating for any other error; and a drag commit after which every
\* piece is exactly on its target leaves totalError 0 and rating Perfect.
C28_StrictTiers ==
  /\ call.op = "getWinRating" =>
        /\ call.arg.out = "Perfect" <=> call.arg.in = 0
        /\ call.arg.out = "Great" <=> (0 < call.arg.in /\ call.arg.in < 2)
        /\ call.arg.out = "Good" <=> (2 <= call.arg.in /\ call.arg.in < 20)
        /\ call.arg.out = null <=> call.arg.in >= 20
  /\ (call.op = "onPieceTransformEnd" /\ OnTarget(store.pieces))
        => store.totalError = 0 /\ store.winRating = "Perfect"

\* C28 witness: the piece of the second level has been dragged onto its
\* target and the level is won with rating Perfect.
C28_Witness ==
  /\ call.op = "onPieceTransformEnd"
  /\ store.levelConfig = 2
  /\ OnTarget(store.pieces)
  /\ store.winRating = "Perfect"

\* C29: choosing next level on the win screen of the last level moves the
\* game to COMPLETE; on the win screen of an earlier level it moves on to the
\* following level with the game back in PLAYING.
C29_NextLevelFromWin ==
  [][/\ (WinScreenShown /\ game.currentLevelIndex = Len(levels)
          /\ effects' = << "alert" >>)
          => store'.gameState = "COMPLETE"
     /\ (WinScreenShown /\ game'.currentLevelIndex = game.currentLevelIndex + 1)
          => /\ store'.gameState = "PLAYING"
             /\ game'.levelEffect]_vars

IsPrefix(a, b) == Len(a) <= Len(b) /\ SubSeq(b, 1, Len(a)) = a

\* C30: a step that loads or resets no level leaves the entries actionLogs
\* held in place and unchanged, adding new ones only after them; and after
\* every step the timestamps along the log are 0 or more and never decrease.
C30_LogAppendOnly ==
  [][/\ SameLevel => IsPrefix(store.actionLogs, store'.actionLogs)
     /\ \A i \in 1..Len(store'.actionLogs) :
          /\ store'.actionLogs[i].timestamp >= 0
          /\ i > 1 => store'.actionLogs[i - 1].timestamp <= store'.actionLogs[i].timestamp]_vars

\* C30 witness: the log holds two entries, the second made later than the
\* first.
C30_Witness ==
  /\ Len(store.actionLogs) = 2
  /\ store.actionLogs[1].timestamp < store.actionLogs[2].timestamp
====
